---- MODULE Spec2Model ----
(***************************************************************************)
(* Conversation memory pipeline of Mythic-Lite.                            *)
(*                                                                         *)
(*   core/conversation_worker.py     ConversationWorker                    *)
(*   workers/summarization_worker.py SummarizationWorker                   *)
(*   core/chatbot_orchestrator.py    periodic memory optimization          *)
(*                                                                         *)
(* Python str values are sequences of one-character strings, so len,       *)
(* slicing, strip, lower, split, startswith and replace are computed on    *)
(* the characters the way the interpreter computes them.                   *)
(***************************************************************************)
EXTENDS Integers, Sequences, FiniteSets, TLC

VARIABLES
    conversation_history,   \* ConversationWorker.conversation_history
    conversation_summary,   \* ConversationWorker.conversation_summary
    cfg,                    \* config.conversation, fixed for the session
    sw,                     \* SummarizationWorker: summarizer, is_initialized, is_enabled
    abandoned,              \* model calls still running in threads whose join timed out
    pc,                     \* "idle", or "fmt" while format_chat_prompt is on the stack
    fcp,                    \* the frame of format_chat_prompt and what it returned
    last,                   \* what the most recent operation did (history variable)
    nturns,                 \* number of turns appended to this conversation
    profile,                \* which texts this session's callers draw from
    memory_cache,           \* MemoryWorker.memory_cache, in insertion order
    memory_file,            \* memory/conversation_memory.json
    mw,                     \* MemoryWorker: llm_worker, flags, counters, patterns
    now,                    \* what time.time() reads
    mlast,                  \* what the most recent memory operation did (history variable)
    export_file,            \* the file at the path export_memory is given
    cw,                     \* workers.ConversationWorker: workers, history, metrics
    clast                   \* what the most recent operation of cw did (history variable)

\* the conversation side and the long-term memory side of the state
cvars == <<conversation_history, conversation_summary, cfg, sw, abandoned, pc, fcp,
           last, nturns, profile>>
mvars == <<memory_cache, memory_file, mw, now, mlast>>
wvars == <<export_file, cw, clast>>
vars == <<cvars, mvars, wvars>>

-----------------------------------------------------------------------------
(* Python str and list primitives *)

Min(a, b) == IF a <= b THEN a ELSE b
Max(a, b) == IF a >= b THEN a ELSE b

\* str.isspace for the characters that occur
IsSpace(c) == c \in {" ", "\n", "\t"}

\* s[:k], for k of either sign
Take(s, k) == SubSeq(s, 1, IF k >= 0 THEN Min(k, Len(s)) ELSE Max(Len(s) + k, 0))

\* s[-k:] for k > 0 (on a str or a list)
LastN(s, k) == SubSeq(s, Max(1, Len(s) - k + 1), Len(s))

\* s[:-k] for k > 0 (on a list)
DropLastN(s, k) == SubSeq(s, 1, Max(Len(s) - k, 0))

\* index of the first non-space character at or after i (Len(s) + 1 if none)
LSkip(s, i) ==
    IF \A j \in i..Len(s) : IsSpace(s[j]) THEN Max(i, Len(s) + 1)
    ELSE CHOOSE j \in i..Len(s) : ~IsSpace(s[j]) /\ \A k \in i..(j - 1) : IsSpace(s[k])

\* index of the last non-space character at or before j (0 if none)
RSkip(s, j) ==
    IF \A k \in 1..j : IsSpace(s[k]) THEN 0
    ELSE CHOOSE k \in 1..j : ~IsSpace(s[k]) /\ \A m \in (k + 1)..j : IsSpace(s[m])

\* str.strip()
Strip(s) == SubSeq(s, LSkip(s, 1), RSkip(s, Len(s)))

UpperLetters == <<"A","B","C","D","E","F","G","H","I","J","K","L","M",
                  "N","O","P","Q","R","S","T","U","V","W","X","Y","Z">>
LowerLetters == <<"a","b","c","d","e","f","g","h","i","j","k","l","m",
                  "n","o","p","q","r","s","t","u","v","w","x","y","z">>
LowerMap == [c \in {UpperLetters[i] : i \in 1..26} |->
                LowerLetters[CHOOSE i \in 1..26 : UpperLetters[i] = c]]

\* str.lower()
Lower(s) == [i \in 1..Len(s) |-> IF s[i] \in DOMAIN LowerMap THEN LowerMap[s[i]] ELSE s[i]]

\* str.startswith(p)
StartsWith(s, p) == Len(s) >= Len(p) /\ SubSeq(s, 1, Len(p)) = p

\* p occurs in s at index j
OccursAt(s, p, j) == j + Len(p) - 1 <= Len(s) /\ SubSeq(s, j, j + Len(p) - 1) = p

\* first index >= i at which p occurs in s, or 0
Find(s, p, i) ==
    IF \A j \in i..Len(s) : ~OccursAt(s, p, j) THEN 0
    ELSE CHOOSE j \in i..Len(s) : OccursAt(s, p, j) /\ \A k \in i..(j - 1) : ~OccursAt(s, p, k)

\* str.replace(p, ''), p non-empty: RemoveFrom cuts the occurrence found at i
RECURSIVE RemoveAll(_, _)
RemoveFrom(s, p, i) ==
    IF i = 0 THEN s
    ELSE SubSeq(s, 1, i - 1) \o RemoveAll(SubSeq(s, i + Len(p), Len(s)), p)

RemoveAll(s, p) == RemoveFrom(s, p, Find(s, p, 1))

\* str.split(sep), sep non-empty: SplitFrom splits at the occurrence found at i
RECURSIVE Split(_, _)
SplitFrom(s, sep, i) ==
    IF i = 0 THEN <<s>>
    ELSE <<SubSeq(s, 1, i - 1)>> \o Split(SubSeq(s, i + Len(sep), Len(s)), sep)

Split(s, sep) == SplitFrom(s, sep, Find(s, sep, 1))

\* index of the last character of the word that starts at i
WordEnd(s, i) ==
    IF \A j \in i..Len(s) : ~IsSpace(s[j]) THEN Len(s)
    ELSE (CHOOSE j \in i..Len(s) : IsSpace(s[j]) /\ \A k \in i..(j - 1) : ~IsSpace(s[k])) - 1

\* str.split()[:n], scanning from index i
RECURSIVE SplitWords(_, _, _)
SplitWords(s, i, n) ==
    LET a == LSkip(s, i) IN
    IF n = 0 \/ a > Len(s) THEN <<>>
    ELSE LET b == WordEnd(s, a) IN <<SubSeq(s, a, b)>> \o SplitWords(s, b + 1, n - 1)

\* sep.join(parts)
RECURSIVE Join(_, _)
Join(parts, sep) ==
    IF parts = <<>> THEN <<>>
    ELSE IF Len(parts) = 1 THEN parts[1]
    ELSE parts[1] \o sep \o Join(Tail(parts), sep)

\* a str of n characters: words of w copies of c, one space between them
Words(n, w, c) == [i \in 1..n |-> IF i % (w + 1) = 0 THEN " " ELSE c]

-----------------------------------------------------------------------------
(* str literals of the source *)

S_Ellipsis == <<".",".",".">>
S_VisitorSp == <<"V","i","s","i","t","o","r",":"," ">>
S_MythicSp == <<"M","y","t","h","i","c",":"," ">>
S_Visitor == <<"V","i","s","i","t","o","r",":">>
S_Mythic == <<"M","y","t","h","i","c",":">>
S_SummaryCap == <<"S","u","m","m","a","r","y",":">>
S_summary_colon == <<"s","u","m","m","a","r","y",":">>
S_summary == <<"s","u","m","m","a","r","y">>
S_summarize_colon == <<"s","u","m","m","a","r","i","z","e",":">>
S_summarize == <<"s","u","m","m","a","r","i","z","e">>
S_Bar == <<" ","|"," ">>
S_CommaSp == <<","," ">>
S_DotSp == <<"."," ">>
S_Dot == <<".">>
S_Newline == <<"\n">>
\* "Continuing our scenario about "
S_Continuing == <<"C","o","n","t","i","n","u","i","n","g"," ","o","u","r"," ","s","c","e",
    "n","a","r","i","o"," ","a","b","o","u","t"," ">>
\* "... The visitor just mentioned: "
S_JustMentioned == <<".",".","."," ","T","h","e"," ","v","i","s","i","t","o","r"," ","j",
    "u","s","t"," ","m","e","n","t","i","o","n","e","d",":"," ">>
\* "New visitor arrived seeking "
S_NewVisitor == <<"N","e","w"," ","v","i","s","i","t","o","r"," ","a","r","r","i","v","e",
    "d"," ","s","e","e","k","i","n","g"," ">>
\* ". I'm helping them with their situation."
S_Helping == <<"."," ","I","'","m"," ","h","e","l","p","i","n","g"," ","t","h","e","m"," ",
    "w","i","t","h"," ","t","h","e","i","r"," ","s","i","t","u","a","t","i","o","n",".">>
\* "Continuing our previous scenario about "
S_ContinuingPrev == <<"C","o","n","t","i","n","u","i","n","g"," ","o","u","r"," ","p","r",
    "e","v","i","o","u","s"," ","s","c","e","n","a","r","i","o"," ","a","b","o","u","t"," ">>
\* "New conversation scenario beginning..."
S_NewConversation == <<"N","e","w"," ","c","o","n","v","e","r","s","a","t","i","o","n"," ",
    "s","c","e","n","a","r","i","o"," ","b","e","g","i","n","n","i","n","g",".",".",".">>
\* "Conversation in progress..."
S_Generic ==
    <<"O","u","r"," ","c","o","n","v","e","r","s","a","t","i","o","n"," ",
      "s","c","e","n","a","r","i","o"," ","c","o","n","t","i","n","u","e","s",".",".",".">>
S_access_violation ==
    <<"a","c","c","e","s","s"," ","v","i","o","l","a","t","i","o","n">>
S_segmentation_fault ==
    <<"s","e","g","m","e","n","t","a","t","i","o","n"," ","f","a","u","l","t">>
S_TopicSp == <<"T","o","p","i","c",":"," ">>
S_InProgress == <<"C","o","n","v","e","r","s","a","t","i","o","n"," ","i","n"," ","p","r",
    "o","g","r","e","s","s",".",".",".">>

-----------------------------------------------------------------------------
(* Optional[str]: what a summarizer call hands back *)

None == [some |-> FALSE, s |-> <<>>]
Some(s) == [some |-> TRUE, s |-> s]

\* truthiness of an Optional[str]
Truthy(r) == r.some /\ r.s # <<>>

-----------------------------------------------------------------------------
(* SummarizationWorker (workers/summarization_worker.py) *)

\* [line.strip() for line in lines]
StripAll(lines) == [i \in 1..Len(lines) |-> Strip(lines[i])]

\* line.replace(label, '').strip()
LineContent(line, label) == Strip(RemoveAll(line, label))

\* the contents of the lines that carry the label and hold more than 3 characters
ContentsOf(lines, label) ==
    [i \in 1..Len(lines) |-> LineContent(lines[i], label)]

\* the contents of the transcript lines that carry a label, in line order
LabelledContents(conversation_text, label) ==
    ContentsOf(SelectSeq(StripAll(Split(conversation_text, S_Newline)),
                         LAMBDA l : StartsWith(l, label) /\ Len(LineContent(l, label)) > 3),
               label)

\* summary[:max_length-3] + "..." when too long
ClipSummary(summary, max_length) ==
    IF Len(summary) > max_length THEN Take(summary, max_length - 3) \o S_Ellipsis ELSE summary

\* current_summary and current_summary != "Conversation in progress..."
HasCurrent(current_summary) == current_summary # <<>> /\ current_summary # S_InProgress

\* the summary _create_simple_summary composes from the two lists of contents
SimpleSummaryOf(visitor_messages, mythic_messages, current_summary, max_length) ==
    IF visitor_messages # <<>> /\ mythic_messages # <<>>
    THEN ClipSummary(
            IF HasCurrent(current_summary)
            THEN S_Continuing \o Take(current_summary, 30) \o S_JustMentioned
                    \o Take(visitor_messages[Len(visitor_messages)], 40)
            ELSE S_NewVisitor \o Take(visitor_messages[1], 50) \o S_Helping,
            max_length)
    ELSE IF HasCurrent(current_summary)
    THEN S_ContinuingPrev \o Take(current_summary, max_length - 30) \o S_Ellipsis
    ELSE S_NewConversation

\* _create_simple_summary on a str transcript
CreateSimpleSummary(conversation_text, current_summary, max_length) ==
    SimpleSummaryOf(LabelledContents(conversation_text, S_Visitor),
                    LabelledContents(conversation_text, S_Mythic),
                    current_summary, max_length)

\* Python values handed to _create_simple_summary: a str, None or an int
PyStr(s) == [type |-> "str", s |-> s, n |-> 0]
PyNone == [type |-> "NoneType", s |-> <<>>, n |-> 0]
PyInt(n) == [type |-> "int", s |-> <<>>, n |-> n]

\* whether the try block of _create_simple_summary raises: split() on a
\* transcript that is not a str; len(summary) > max_length or
\* current_summary[:max_length-30] with a max_length that is not an int.  A
\* current_summary of None is falsy and is never sliced.
SimpleSummaryRaises(conversation_text, current_summary, max_length) ==
    \/ conversation_text.type # "str"
    \/ /\ max_length.type # "int"
       /\ \/ /\ LabelledContents(conversation_text.s, S_Visitor) # <<>>
             /\ LabelledContents(conversation_text.s, S_Mythic) # <<>>
          \/ HasCurrent(current_summary.s)

\* a _create_simple_summary whose except clause returns the empty string
CreateSimpleSummaryEmptyOnError(conversation_text, current_summary, max_length) ==
    IF SimpleSummaryRaises(conversation_text, current_summary, max_length)
    THEN <<>>
    ELSE CreateSimpleSummary(conversation_text.s, current_summary.s, max_length.n)

\* _create_simple_summary with its except clause, on Python values
CreateSimpleSummaryTry(conversation_text, current_summary, max_length) ==
    IF SimpleSummaryRaises(conversation_text, current_summary, max_length)
    THEN S_Generic
    ELSE CreateSimpleSummary(conversation_text.s, current_summary.s, max_length.n)

\* the four prefixes, tried in order; the first that matches is cut off
UnwantedPrefixes == <<S_summary_colon, S_summary, S_summarize_colon, S_summarize>>

RemoveUnwantedPrefix(summary) ==
    LET hit == {i \in 1..Len(UnwantedPrefixes) : StartsWith(Lower(summary), UnwantedPrefixes[i])}
    IN  IF hit = {} THEN summary
        ELSE LET i == CHOOSE j \in hit : \A k \in hit : j <= k
             IN  Strip(SubSeq(summary, Len(UnwantedPrefixes[i]) + 1, Len(summary)))

\* return summary if summary and len(summary.strip()) > 5 else None
UsableSummary(summary) ==
    IF summary # <<>> /\ Len(Strip(summary)) > 5 THEN Some(summary) ELSE None

\* clean-up of the model's message content
CleanModelSummary(content, max_length) ==
    UsableSummary(
        ClipSummary(
            Strip(RemoveAll(RemoveAll(RemoveUnwantedPrefix(Strip(content)), S_SummaryCap),
                            S_summary_colon)),
            max_length))

\* what the model call did: it raised, returned None, did not finish before
\* the join timeout, or returned choices[0].message.content = text
AIRaise == [kind |-> "raise", text |-> <<>>]
AINone == [kind |-> "none", text |-> <<>>]
AITimeout == [kind |-> "timeout", text |-> <<>>]
AIText(t) == [kind |-> "text", text |-> t]

\* create_continuous_summary: ret is the return value, via the path taken
CreateContinuousSummary(w, conversation_text, current_summary, max_length, outcome) ==
    IF ~w.is_enabled \/ ~w.summarizer \/ outcome.kind = "timeout"
    THEN [ret |-> Some(CreateSimpleSummary(conversation_text, current_summary, max_length)),
          via |-> IF ~w.is_enabled \/ ~w.summarizer THEN "simple_disabled"
                  ELSE "simple_timeout"]
    ELSE IF outcome.kind = "raise" THEN [ret |-> None, via |-> "exception"]
    ELSE IF outcome.kind = "none" THEN [ret |-> None, via |-> "no_response"]
    ELSE [ret |-> CleanModelSummary(outcome.text, max_length), via |-> "model"]

\* an exception of the model call whose str() is msg
AIRaiseMsg(msg) == [kind |-> "raise", text |-> msg]

\* "access violation" in str(e).lower() or "segmentation fault" in str(e).lower()
IsCritical(msg) ==
    \/ Find(Lower(msg), S_access_violation, 1) # 0
    \/ Find(Lower(msg), S_segmentation_fault, 1) # 0

\* summarizer = None, is_enabled = False
Disabled(w) == [w EXCEPT !.summarizer = FALSE, !.is_enabled = FALSE]

\* a body that disables the worker on every exception of the model call
GuardedModelCallDisablesOnError(w, text, max_length, outcome) ==
    IF outcome.kind = "timeout"
    THEN [ret |-> Some(CreateSimpleSummary(text, <<>>, max_length)),
          via |-> "simple_timeout", w |-> w]
    ELSE IF outcome.kind = "raise"
    THEN [ret |-> None,
          via |-> IF IsCritical(outcome.text) THEN "critical" ELSE "exception",
          w |-> Disabled(w)]
    ELSE IF outcome.kind = "none" THEN [ret |-> None, via |-> "no_response", w |-> w]
    ELSE [ret |-> CleanModelSummary(outcome.text, max_length), via |-> "model", w |-> w]

\* The body of create_ai_summary and create_topic_summary once the guard has
\* passed, for the text given to the model: ret is the return value, via the
\* path taken, w the worker's fields afterwards.  The worker only ever stores
\* in summarizer what Llama.from_pretrained returned, and is_enabled is set
\* after a successful create_chat_completion of that object, so the hasattr
\* check passes.
GuardedModelCall(w, text, max_length, outcome) ==
    IF outcome.kind = "timeout"
    THEN [ret |-> Some(CreateSimpleSummary(text, <<>>, max_length)),
          via |-> "simple_timeout", w |-> w]
    ELSE IF outcome.kind = "raise"
    THEN [ret |-> None,
          via |-> IF IsCritical(outcome.text) THEN "critical" ELSE "exception",
          w |-> IF IsCritical(outcome.text) THEN Disabled(w) ELSE w]
    ELSE IF outcome.kind = "none" THEN [ret |-> None, via |-> "no_response", w |-> w]
    ELSE [ret |-> CleanModelSummary(outcome.text, max_length), via |-> "model", w |-> w]

\* a create_ai_summary that calls the model whatever the worker's state
CreateAiSummaryUnguarded(w, text, max_length, outcome) ==
    GuardedModelCall(w, text, max_length, outcome)

\* create_ai_summary(text, max_length)
CreateAiSummary(w, text, max_length, outcome) ==
    IF ~w.is_enabled \/ ~w.summarizer \/ text = <<>>
    THEN [ret |-> None, via |-> "guard", w |-> w]
    ELSE GuardedModelCall(w, text, max_length, outcome)

-----------------------------------------------------------------------------
(* ConversationWorker (core/conversation_worker.py): turns and summaries   *)

\* A turn is [id, role, content, ctype]: id stands for the timestamp (the
\* position in the order of appends), ctype is the Python type of content.
Ids(messages) == {messages[i].id : i \in 1..Len(messages)}

\* f"{msg['content']}": str() of the content
Rendered(msg) ==
    IF msg.ctype = "bytes" THEN <<"b", "'">> \o msg.content \o <<"'">> ELSE msg.content

\* the role-labelled transcript handed to the summarization worker
RECURSIVE Transcript(_)
Transcript(messages) ==
    IF messages = <<>> THEN <<>>
    ELSE (IF messages[1].role = "user" THEN S_VisitorSp ELSE S_MythicSp)
            \o Rendered(messages[1]) \o S_Newline \o Transcript(Tail(messages))

\* the caller's check of what create_continuous_summary returned:
\* Some(new summary) when it is stored, None when it is dropped
AcceptSummary(ret) ==
    IF Truthy(ret) /\ Strip(ret.s) # <<>> /\ Len(Strip(ret.s)) > 5
    THEN IF ~StartsWith(Lower(ret.s), S_summary_colon)
         THEN Some(Strip(ret.s))
         ELSE LET clean_summary == Strip(RemoveAll(ret.s, S_SummaryCap))
              IN  IF clean_summary # <<>> /\ Len(clean_summary) > 5
                  THEN Some(clean_summary) ELSE None
    ELSE None

\* topic of a user message: its first words
UserTopic(msg) ==
    LET content == Lower(msg.content)
    IN  IF Len(content) > 20
        THEN Join(SplitWords(content, 1, 8), <<" ">>) \o S_Ellipsis
        ELSE content

\* key points of an assistant message: its first two sentences
AssistantPoint(msg) ==
    LET content == Lower(msg.content)
    IN  IF Len(content) > 30
        THEN Join(Take(Split(content, S_Dot), 2), S_DotSp) \o S_Ellipsis
        ELSE content

\* [m for m in messages if m['role'] == role]
WithRole(messages, role) == SelectSeq(messages, LAMBDA m : m.role = role)

\* A bytes content passes lower() and len(); str.join and bytes.split('.')
\* then raise TypeError, which the except clause of the method catches.
ExtractionRaises(users, assistants) ==
    \/ \E i \in 1..Len(users) : users[i].ctype = "bytes" /\ Len(users[i].content) > 20
    \/ \E i \in 1..Len(assistants) :
            assistants[i].ctype = "bytes" /\ Len(assistants[i].content) > 30
    \/ \E i \in 1..Len(users) : i > Len(users) - 4 /\ users[i].ctype = "bytes"
    \/ \E i \in 1..Len(assistants) : i > Len(assistants) - 4 /\ assistants[i].ctype = "bytes"

\* f"Visitor: {', '.join(user_topics[-4:])}"
VisitorPart(users) ==
    S_VisitorSp \o Join(LastN([i \in 1..Len(users) |-> UserTopic(users[i])], 4), S_CommaSp)

\* f"Mythic: {', '.join(assistant_responses[-4:])}"
MythicPart(assistants) ==
    S_MythicSp
        \o Join(LastN([i \in 1..Len(assistants) |-> AssistantPoint(assistants[i])], 4),
                S_CommaSp)

\* the text extraction from the user turns and the assistant turns
ExtractionOf(users, assistants, raised) ==
    [raised |-> raised,
     wrote |-> ~raised /\ (users # <<>> \/ assistants # <<>>),
     summary |-> IF raised THEN <<>>
                 ELSE IF users # <<>> /\ assistants # <<>>
                 THEN VisitorPart(users) \o S_Bar \o MythicPart(assistants)
                 ELSE IF users # <<>> THEN VisitorPart(users)
                 ELSE IF assistants # <<>> THEN MythicPart(assistants)
                 ELSE <<>>,
     fed |-> Ids(users) \cup Ids(assistants)]

\* the inline text extraction of _create_conversation_summary
TextExtraction(old_messages) ==
    ExtractionOf(WithRole(old_messages, "user"), WithRole(old_messages, "assistant"),
                 ExtractionRaises(WithRole(old_messages, "user"),
                                  WithRole(old_messages, "assistant")))

\* What one summarization pass did:
\*   summary  conversation_summary after the pass
\*   writer   who wrote it: "ai", "simple" (_create_simple_summary),
\*            "inline" (text extraction), "cleared" (except clause), "none"
\*   via      the path create_continuous_summary took, "not_called" if not called
\*   ret      what create_continuous_summary returned
\*   fed      ids of the turns whose content was handed to a summarizer
NoPass(summary) ==
    [summary |-> summary, writer |-> "none", via |-> "not_called", ret |-> None,
     fed |-> {}, max_length |-> 0]

WriterOf(via) == IF via = "model" THEN "ai" ELSE "simple"

\* continuous_summarize stores what the worker returned if the check accepts it
ContinuousStore(r, acc, summary, fed) ==
    [summary |-> IF acc.some THEN acc.s ELSE summary,
     writer |-> IF acc.some THEN WriterOf(r.via) ELSE "none",
     via |-> r.via, ret |-> r.ret, fed |-> fed, max_length |-> 120]

ContinuousAccept(r, summary, fed) == ContinuousStore(r, AcceptSummary(r.ret), summary, fed)

\* the summary update inside continuous_summarize
ContinuousPass(old_messages, supplied, w, summary, outcome) ==
    IF supplied /\ w.is_enabled /\ Transcript(LastN(old_messages, 8)) # <<>>
    THEN ContinuousAccept(
            CreateContinuousSummary(w, Transcript(LastN(old_messages, 8)), summary, 120,
                                    outcome),
            summary, Ids(LastN(old_messages, 8)))
    ELSE NoPass(summary)

\* _create_conversation_summary stores the worker's summary if the check
\* accepts it, and the text extraction's (or "" when that raised) otherwise
ConversationStore(called, r, acc, ex, summary, fed) ==
    IF called /\ acc.some
    THEN [summary |-> acc.s, writer |-> WriterOf(r.via), via |-> r.via, ret |-> r.ret,
          fed |-> fed, max_length |-> 150]
    ELSE [summary |-> IF ex.raised THEN <<>>
                      ELSE IF ex.wrote THEN ex.summary ELSE summary,
          writer |-> IF ex.raised THEN "cleared"
                     ELSE IF ex.wrote THEN "inline" ELSE "none",
          via |-> IF called THEN r.via ELSE "not_called",
          ret |-> IF called THEN r.ret ELSE None,
          fed |-> (IF called THEN fed ELSE {}) \cup ex.fed,
          max_length |-> 150]

ConversationAccept(called, r, ex, summary, fed) ==
    ConversationStore(called, r, AcceptSummary(r.ret), ex, summary, fed)

\* _create_conversation_summary
CreateConversationSummary(old_messages, supplied, w, summary, outcome) ==
    ConversationAccept(
        supplied /\ w.is_enabled /\ Transcript(LastN(old_messages, 10)) # <<>>,
        CreateContinuousSummary(w, Transcript(LastN(old_messages, 10)), summary, 150,
                                outcome),
        TextExtraction(old_messages), summary, Ids(LastN(old_messages, 10)))

\* a continuous_summarize that keeps the oldest 6 turns and summarizes the rest
ContinuousSummarizeKeepsOldest(history, supplied, w, summary, outcome) ==
    IF Len(history) > 6 /\ DropLastN(history, 6) # <<>>
    THEN [ran |-> TRUE, history |-> Take(history, 6),
          pass |-> ContinuousPass(LastN(history, Len(history) - 6), supplied, w, summary,
                                  outcome)]
    ELSE [ran |-> FALSE, history |-> history, pass |-> NoPass(summary)]

\* continuous_summarize: ran is its return value
ContinuousSummarize(history, supplied, w, summary, outcome) ==
    IF Len(history) > 6 /\ DropLastN(history, 6) # <<>>
    THEN [ran |-> TRUE, history |-> LastN(history, 6),
          pass |-> ContinuousPass(DropLastN(history, 6), supplied, w, summary, outcome)]
    ELSE [ran |-> FALSE, history |-> history, pass |-> NoPass(summary)]

\* summarize the turns before the last keep (if any) and keep the last keep
SummarizeAndKeep(history, keep, supplied, w, summary, outcome) ==
    [ran |-> TRUE, history |-> LastN(history, keep),
     pass |-> IF DropLastN(history, keep) # <<>>
              THEN CreateConversationSummary(DropLastN(history, keep), supplied, w,
                                             summary, outcome)
              ELSE NoPass(summary)]

\* _force_summarization
ForceSummarization(history, supplied, w, summary, outcome) ==
    IF Len(history) > 4
    THEN SummarizeAndKeep(history, 4, supplied, w, summary, outcome)
    ELSE [ran |-> FALSE, history |-> history, pass |-> NoPass(summary)]

\* continuous summarization first, with an enabled worker; the fallback if it
\* returned False or was not tried
ContinuousFirst(cs, supplied, w, fallback) ==
    IF supplied /\ w.is_enabled /\ cs.ran THEN cs ELSE fallback

\* the memory management of add_to_conversation once the turn is appended
ManageMemory(history, max_conversation_length, supplied, w, summary, outcome) ==
    IF Len(history) > max_conversation_length
    THEN ContinuousFirst(ContinuousSummarize(history, supplied, w, summary, outcome),
                         supplied, w,
                         SummarizeAndKeep(history, 8, supplied, w, summary, outcome))
    ELSE [ran |-> FALSE, history |-> history, pass |-> NoPass(summary)]

\* create_topic_summary(topic, relevant_messages, max_length)
CreateTopicSummary(w, topic, relevant_messages, max_length, outcome) ==
    IF ~w.is_enabled \/ ~w.summarizer \/ relevant_messages = <<>>
    THEN [ret |-> None, via |-> "guard", w |-> w]
    ELSE GuardedModelCall(w, S_TopicSp \o topic \o S_Newline \o S_Newline
                                \o Transcript(LastN(relevant_messages, 8)),
                          max_length, outcome)

\* the turns among the last 10 whose content holds the query, in any case
RelevantMessages(history, query) ==
    SelectSeq(LastN(history, 10),
              LAMBDA msg : Find(Lower(msg.content), Lower(query), 1) # 0)

\* The summarizer call of get_conversation_context(query, summarization_worker):
\* none without turns or query; query_lower in msg['content'].lower() raises
\* TypeError on bytes content; an enabled worker is asked for a topic summary
\* of the relevant turns.
ContextSummary(history, query, supplied, w, outcome) ==
    IF history = <<>> \/ query = <<>>
    THEN [ret |-> None, via |-> "not_called", w |-> w]
    ELSE IF \E i \in 1..Len(LastN(history, 10)) : LastN(history, 10)[i].ctype = "bytes"
    THEN [ret |-> None, via |-> "TypeError", w |-> w]
    ELSE IF RelevantMessages(history, query) # <<>> /\ supplied /\ w.is_enabled
    THEN CreateTopicSummary(w, query, RelevantMessages(history, query), 150, outcome)
    ELSE [ret |-> None, via |-> "not_called", w |-> w]

-----------------------------------------------------------------------------
(* format_chat_prompt: the prompt as the sequence of its blocks *)

\* len(self.system_prompt)
SystemPromptLen == 196
\* estimated tokens above which the prompt is taken to be too long
TokenBudget == 350

\* A block is [kind, text]; the prompt str is the concatenation of
\*   system_prompt     self.system_prompt
\*   context           "\n<|system|>\nContext: " text "</s>"
\*   user              "\n<|user|>\n" text "</s>"
\*   assistant         "\n<|assistant|>\n" text "</s>"
\*   assistant_start   "\n<|assistant|>"
Block(kind, text) == [kind |-> kind, text |-> text]

BlockLen(b) ==
    CASE b.kind = "system_prompt" -> SystemPromptLen
      [] b.kind = "context" -> 21 + Len(b.text) + 4
      [] b.kind = "user" -> 10 + Len(b.text) + 4
      [] b.kind = "assistant" -> 15 + Len(b.text) + 4
      [] b.kind = "assistant_start" -> 14

RECURSIVE PromptLen(_)
PromptLen(prompt) ==
    IF prompt = <<>> THEN 0 ELSE BlockLen(prompt[1]) + PromptLen(Tail(prompt))

\* llm_worker.check_prompt_length: content length / 4
CheckPromptLength(prompt) == PromptLen(prompt) \div 4

\* the turns of the last six that get a block: user and assistant turns
RECURSIVE TurnBlocks(_)
TurnBlocks(messages) ==
    IF messages = <<>> THEN <<>>
    ELSE (IF messages[1].role \in {"user", "assistant"}
          THEN <<Block(messages[1].role, Rendered(messages[1]))>>
          ELSE <<>>) \o TurnBlocks(Tail(messages))

\* a prompt with the current user input ahead of the buffer turns
BuildPromptInputFirst(history, summary, user_input) ==
    <<Block("system_prompt", <<>>)>>
        \o (IF summary # <<>> THEN <<Block("context", summary)>> ELSE <<>>)
        \o <<Block("user", user_input)>>
        \o TurnBlocks(LastN(history, 6))
        \o <<Block("assistant_start", <<>>)>>

\* the prompt format_chat_prompt builds before it checks the length
BuildPrompt(history, summary, user_input) ==
    <<Block("system_prompt", <<>>)>>
        \o (IF summary # <<>> THEN <<Block("context", summary)>> ELSE <<>>)
        \o TurnBlocks(LastN(history, 6))
        \o <<Block("user", user_input)>>
        \o <<Block("assistant_start", <<>>)>>

\* a length check with a threshold of 400 estimated tokens
OverBudgetAt400(prompt) == CheckPromptLength(prompt) > 400

\* estimated_tokens > 350
OverBudget(prompt) == CheckPromptLength(prompt) > TokenBudget

-----------------------------------------------------------------------------
(* Bounds and the inputs the callers draw from *)

MaxTurns == 8           \* add_to_conversation calls in a run
MaxAbandoned == 1       \* timed-out model calls still running at once

Configs ==
    {[max_conversation_length |-> n, max_tokens_per_message |-> 200,
      memory_compression_threshold |-> 6, auto_summarize_interval |-> 4] : n \in {7}}

Profiles == {"chat", "long", "mixed"}

Digits == <<"0","1","2","3","4","5","6","7","8","9">>
Decimal(n) ==
    IF n < 10 THEN <<Digits[n + 1]>> ELSE <<Digits[(n \div 10) + 1], Digits[(n % 10) + 1]>>

\* s with its first characters overwritten by t
Overwrite(s, t) == [i \in 1..Len(s) |-> IF i <= Len(t) THEN t[i] ELSE s[i]]

\* the (role, content, ctype) a caller may append as turn number n
Inputs(p, n) ==
    CASE p = "chat" ->
            {IF n % 2 = 1
             THEN [role |-> "user", content |-> <<"m","s","g"," ">> \o Decimal(n),
                   ctype |-> "str"]
             ELSE [role |-> "assistant", content |-> <<"r","e","p","l","y"," ">> \o Decimal(n),
                   ctype |-> "str"]}
      [] p = "long" ->
            {IF n % 2 = 1
             THEN [role |-> "user", content |-> Overwrite(Words(250, 9, "a"), Decimal(n)),
                   ctype |-> "str"]
             ELSE [role |-> "assistant",
                   content |-> <<"A","y","e"," ">> \o Decimal(n) \o <<"."," ">>
                                  \o Words(119, 9, "B"),
                   ctype |-> "str"]}
      [] p = "mixed" ->
            {IF n % 2 = 1
             THEN [role |-> "system", content |-> <<"n","o","t","e"," ">> \o Decimal(n),
                   ctype |-> "str"]
             ELSE [role |-> "user", content |-> <<"h","e","y"," ">> \o Decimal(n),
                   ctype |-> "bytes"]}

\* the user inputs format_chat_prompt is called with, by name
UserInputs ==
    [medium |-> Words(300, 9, "q"), huge |-> Words(1400, 9, "q")]

\* the (user_input, llm_worker, summarization_worker) format_chat_prompt is
\* called with; llm and supplied say whether the worker argument is given
FormatArgs ==
    {[user_input |-> "medium", llm |-> TRUE, supplied |-> TRUE],
     [user_input |-> "huge", llm |-> TRUE, supplied |-> FALSE],
     [user_input |-> "huge", llm |-> FALSE, supplied |-> FALSE]}

\* choices[0].message.content of the model's responses
AIResponses ==
    {<<>>,
     S_SummaryCap,
     S_SummaryCap \o <<" ","S","U","M","M","A","R","Y",":"," ","A"," ","j","o","b",".">>,
     <<"T","h","e"," ","v","i","s","i","t","o","r"," ","s","e","e","k","s"," ","w","o","r","k",".">>,
     Words(160, 160, "w")}

AIOutcomes == {AIRaise, AINone, AITimeout} \cup {AIText(t) : t \in AIResponses}

\* direct calls of the worker's methods are explored while at most
\* MaxCallTurns turns have been appended, get_conversation_context for one
\* turn more
MaxCallTurns == 0

T_Exchange ==
    <<"V","i","s","i","t","o","r",":"," ","I"," ","n","e","e","d"," ","a"," ","g","u",
      "i","d","e"," ","o","v","e","r"," ","t","h","e"," ","p","a","s","s"," ","b","e",
      "f","o","r","e"," ","t","h","e"," ","s","n","o","w"," ","c","l","o","s","e","s",
      " ","i","t"," ","f","o","r"," ","t","h","e"," ","w","i","n","t","e","r","\n","M",
      "y","t","h","i","c",":"," ","A","y","e",","," ","I"," ","k","n","o","w"," ","t",
      "h","e"," ","w","a","y","\n">>
T_OldTale ==
    <<"t","h","e"," ","o","l","d"," ","r","o","a","d"," ","t","a","l","e"," ","o","f",
      " ","t","h","e"," ","n","o","r","t","h","e","r","n"," ","p","a","s","s"," ","a",
      "n","d"," ","i","t","s"," ","k","e","e","p","e","r","s",","," ","t","o","l","d",
      " ","a","t"," ","e","v","e","r","y"," ","f","i","r","e"," ","f","r","o","m"," ",
      "t","h","e"," ","c","o","a","s","t"," ","t","o"," ","t","h","e"," ","h","i","g",
      "h"," ","f","o","r","t","s">>
T_Query ==
    <<"m","s","g">>
T_AccessViolation ==
    <<"O","S","E","r","r","o","r",":"," ","e","x","c","e","p","t","i","o","n",":"," ",
      "A","c","c","e","s","s"," ","V","i","o","l","a","t","i","o","n"," ","r","e","a",
      "d","i","n","g"," ","0","x","0">>

\* the arguments the worker's methods are called with
CallTexts == {T_Exchange, <<>>}
CallSummaries == {<<>>, T_OldTale}
CallMaxLengths == {120}
SimpleArgs ==
    {[conversation_text |-> t, current_summary |-> c, max_length |-> m] :
        t \in {PyStr(x) : x \in CallTexts} \cup {PyNone},
        c \in {PyStr(x) : x \in CallSummaries} \cup {PyNone},
        m \in {PyInt(x) : x \in CallMaxLengths} \cup {PyInt(0), PyNone}}

-----------------------------------------------------------------------------
(* MemoryWorker (workers/memory_worker.py)                                 *)
(*                                                                         *)
(* memory_cache is a dict: a sequence of [key, data] entries in insertion  *)
(* order, no key twice.  time.time() is read in whole seconds.  A          *)
(* relevance score is kept in tenths (2 is 20, 0.5 is 5, 0.3 is 3); for    *)
(* the queries used here, of at most three words, the order of the float   *)
(* sums is the order of the tenths.                                        *)

\* config.memory: the TTL is one hour here (one week by default) and room is
\* for two memories (a thousand by default); both pass _validate_config
MemoryConfig == [memory_ttl_hours |-> 1, max_memories |-> 2]

\* the keys of a dict
Keys(d) == {d[i].key : i \in 1..Len(d)}

\* d[k], for k in d
DictGet(d, k) == d[CHOOSE i \in 1..Len(d) : d[i].key = k].data

\* d[k] = v: a key already present keeps its place
DictSet(d, k, v) ==
    IF k \in Keys(d)
    THEN [i \in 1..Len(d) |-> IF d[i].key = k THEN [key |-> k, data |-> v] ELSE d[i]]
    ELSE Append(d, [key |-> k, data |-> v])

\* d.update(other)
RECURSIVE DictUpdate(_, _)
DictUpdate(d, other) ==
    IF other = <<>> THEN d
    ELSE DictUpdate(DictSet(d, other[1].key, other[1].data), Tail(other))

\* str(n) of a non-negative int
RECURSIVE DecimalStr(_)
DecimalStr(n) ==
    IF n < 10 THEN <<Digits[n + 1]>> ELSE DecimalStr(n \div 10) \o <<Digits[(n % 10) + 1]>>

\* f"conv_{timestamp}" for the float of a whole number of seconds
MemoryKey(timestamp) == <<"c","o","n","v","_">> \o DecimalStr(timestamp) \o <<".","0">>

\* text.split(): all the words
AllWords(text) == SplitWords(text, 1, Len(text))

\* set(a_list)
SetOf(a_list) == {a_list[i] : i \in 1..Len(a_list)}

\* set(text.split())
WordSet(text) == SetOf(AllWords(text))

stop_words ==
    {<<"t","h","e">>, <<"a">>, <<"a","n">>, <<"a","n","d">>, <<"o","r">>, <<"b","u","t">>,
     <<"i","n">>, <<"o","n">>, <<"a","t">>, <<"t","o">>, <<"f","o","r">>, <<"o","f">>,
     <<"w","i","t","h">>, <<"b","y">>}

\* _extract_keywords(text): a set
ExtractKeywords(text) ==
    [type |-> "set",
     items |-> {w \in WordSet(Lower(text)) : Len(w) > 3 /\ w \notin stop_words}]

\* create_memory_summary(text, max_length) of an enabled worker with an LLM
\* worker: the summary and whether total_summaries_generated is incremented
ClipMemorySummary(summary, max_length) ==
    IF Len(summary) > max_length THEN Take(summary, max_length - 3) \o S_Ellipsis
    ELSE summary

CreateMemorySummary(w, text, max_length, outcome) ==
    IF ~w.is_enabled \/ w.llm_worker = "none" \/ text = <<>>
       \/ outcome.kind # "text" \/ outcome.text = <<>>
    THEN [ret |-> None, generated |-> 0]
    ELSE [ret |-> Some(ClipMemorySummary(Strip(outcome.text), max_length)),
          generated |-> 1]

\* the entry store_conversation_memory builds; `context or {}` is {} for the
\* contexts used here
EmptyDict == <<>>
CombinedText(user_input, ai_response) == user_input \o S_Newline \o ai_response

EntrySummary(w, user_input, ai_response, outcome) ==
    IF Len(CombinedText(user_input, ai_response)) > 50
    THEN CreateMemorySummary(w, CombinedText(user_input, ai_response), 100, outcome)
    ELSE [ret |-> None, generated |-> 0]

ConversationEntry(w, timestamp, user_input, ai_response, outcome) ==
    [timestamp |-> timestamp, user_input |-> user_input, ai_response |-> ai_response,
     context |-> EmptyDict,
     \* `if summary:` leaves None in place of an empty summary
     summary |-> IF Truthy(EntrySummary(w, user_input, ai_response, outcome).ret)
                 THEN EntrySummary(w, user_input, ai_response, outcome).ret ELSE None,
     keywords |-> ExtractKeywords(user_input \o <<" ">> \o ai_response)]

\* _update_conversation_patterns: one count more for every word of the user
\* input longer than 3 characters, once per occurrence
RECURSIVE CountWords(_, _)
CountWords(patterns, words) ==
    IF words = <<>> THEN patterns
    ELSE CountWords(
           IF Len(words[1]) <= 3 THEN patterns
           ELSE [w \in DOMAIN patterns \cup {words[1]} |->
                   IF w = words[1]
                   THEN (IF w \in DOMAIN patterns THEN patterns[w] ELSE 0) + 1
                   ELSE patterns[w]],
           Tail(words))

S_mythic == <<"m","y","t","h","i","c">>

UpdateConversationPatterns(w, user_input, ai_response) ==
    [w EXCEPT !.conversation_patterns = CountWords(@, AllWords(Lower(user_input))),
              !.mythic_mentions = IF Find(Lower(ai_response), S_mythic, 1) # 0
                                  THEN @ + 1 ELSE @]

\* memory/conversation_memory.json: absent, a JSON document (the entries of
\* the dumped dict), or the characters written before a dump failed
FileAbsent == [kind |-> "absent", doc |-> <<>>]
JsonFile(doc) == [kind |-> "json", doc |-> doc]
PartialFile(doc) == [kind |-> "partial", doc |-> doc]

\* json.dump cannot encode a set: "Object of type set is not JSON serializable"
Serializable(entry) == entry.data.keywords.type = "list"

\* the entries json.dump writes in full before it raises, or all of them
DumpedPrefix(cache) ==
    IF \A i \in 1..Len(cache) : Serializable(cache[i]) THEN cache
    ELSE SubSeq(cache, 1,
                (CHOOSE i \in 1..Len(cache) :
                    /\ ~Serializable(cache[i])
                    /\ \A j \in 1..(i - 1) : Serializable(cache[j])) - 1)

\* _save_memory(): the file afterwards.  open(..., 'w') truncates the file
\* unless it raises; json.dump writes entry after entry and raises TypeError
\* at the first set; a failing write leaves what was written.  Every
\* exception is logged and swallowed.
SaveMemory(cache, file, io) ==
    IF io = "open_fails" THEN file
    ELSE IF io = "write_fails" THEN PartialFile(<<>>)
    ELSE IF DumpedPrefix(cache) = cache THEN JsonFile(cache)
    ELSE PartialFile(DumpedPrefix(cache))

\* _load_memory(): the new memory_cache.  json.load raises on a document cut
\* short, and every exception gives an empty cache.
LoadMemory(file, io) ==
    IF file.kind = "json" /\ io = "ok" THEN file.doc ELSE <<>>

\* _cleanup_expired_memories(): cutoff_time
CutoffTime(t) == t - (MemoryConfig.memory_ttl_hours * 3600)

\* an expiry test that also takes the memories whose timestamp is the cutoff
ExpiredInclusive(entry, t) == entry.data.timestamp <= CutoffTime(t)

\* _cleanup_expired_memories(): the test on a memory, and the new memory_cache
Expired(entry, t) == entry.data.timestamp < CutoffTime(t)
\* expired_keys
RECURSIVE ExpiredKeys(_, _)
ExpiredKeys(cache, t) ==
    IF cache = <<>> THEN <<>>
    ELSE (IF Expired(cache[1], t) THEN <<cache[1].key>> ELSE <<>>)
         \o ExpiredKeys(Tail(cache), t)

RECURSIVE CleanupExpired(_, _)
CleanupExpired(cache, t) ==
    IF cache = <<>> THEN <<>>
    ELSE (IF Expired(cache[1], t) THEN <<>> ELSE <<cache[1]>>)
         \o CleanupExpired(Tail(cache), t)

\* `p in s`
Contains(s, p) == p = <<>> \/ Find(s, p, 1) # 0

\* the relevance_score of one memory, in tenths
UserInputScore(user_input_lower, query_lower) ==
    (IF Contains(user_input_lower, query_lower) THEN 20 ELSE 0)
    + 5 * Cardinality(WordSet(query_lower) \cap WordSet(user_input_lower))

\* a score that counts the summary like the response
RelevanceScoreFlat(memory_data, query_lower) ==
    (IF memory_data.user_input # <<>>
     THEN UserInputScore(Lower(memory_data.user_input), query_lower) ELSE 0)
    + (IF memory_data.ai_response # <<>>
          /\ Contains(Lower(memory_data.ai_response), query_lower) THEN 10 ELSE 0)
    + (IF Truthy(memory_data.summary)
          /\ Contains(Lower(memory_data.summary.s), query_lower) THEN 10 ELSE 0)
    + 3 * Cardinality(WordSet(query_lower) \cap memory_data.keywords.items)

RelevanceScore(memory_data, query_lower) ==
    (IF memory_data.user_input # <<>>
     THEN UserInputScore(Lower(memory_data.user_input), query_lower) ELSE 0)
    + (IF memory_data.ai_response # <<>>
          /\ Contains(Lower(memory_data.ai_response), query_lower) THEN 10 ELSE 0)
    + (IF Truthy(memory_data.summary)
          /\ Contains(Lower(memory_data.summary.s), query_lower) THEN 30 ELSE 0)
    + 3 * Cardinality(WordSet(query_lower) \cap memory_data.keywords.items)

\* what the loop appends for one memory: nothing unless its score is positive
Relevant(entry, relevance_score) ==
    IF relevance_score > 0
    THEN <<[key |-> entry.key, data |-> entry.data, relevance |-> relevance_score]>>
    ELSE <<>>

\* the memories with a positive score, in the order of memory_cache
RECURSIVE RelevantMemories(_, _)
RelevantMemories(cache, query_lower) ==
    IF cache = <<>> THEN <<>>
    ELSE Relevant(cache[1], RelevanceScore(cache[1].data, query_lower))
         \o RelevantMemories(Tail(cache), query_lower)

\* list.sort(key=relevance, reverse=True): stable, so m goes behind every
\* element that scores at least as much
RECURSIVE InsertByRelevance(_, _)
InsertByRelevance(sorted, m) ==
    IF sorted = <<>> THEN <<m>>
    ELSE IF sorted[1].relevance >= m.relevance
    THEN <<sorted[1]>> \o InsertByRelevance(Tail(sorted), m)
    ELSE <<m>> \o sorted

RECURSIVE SortByRelevance(_)
SortByRelevance(ms) ==
    IF ms = <<>> THEN <<>>
    ELSE InsertByRelevance(SortByRelevance(SubSeq(ms, 1, Len(ms) - 1)), ms[Len(ms)])

\* a recall that returns the first max_results matches in store order
RecallUnsorted(w, cache, query, max_results) ==
    IF ~w.is_enabled \/ cache = <<>> THEN <<>>
    ELSE Take(RelevantMemories(cache, Lower(query)), max_results)

\* a recall that does not look at is_enabled
RecallWhileDisabled(w, cache, query, max_results) ==
    IF cache = <<>> THEN <<>>
    ELSE Take(SortByRelevance(RelevantMemories(cache, Lower(query))), max_results)

\* recall_relevant_memory(query, max_results): the list returned
RecallRelevantMemory(w, cache, query, max_results) ==
    IF ~w.is_enabled \/ cache = <<>> THEN <<>>
    ELSE Take(SortByRelevance(RelevantMemories(cache, Lower(query))), max_results)

(* workers.ConversationWorker: its state as constructed *)

MaxChatHistory == 4     \* entries of conversation_history of the conversation worker

S_SystemNotAvailable ==
    <<"S","y","s","t","e","m"," ","n","o","t"," ","a","v","a","i","l","a","b",
    "l","e","."," ","P","l","e","a","s","e"," ","w","a","i","t",".",".",".">>
S_Apology ==
    <<"I"," ","a","p","o","l","o","g","i","z","e",","," ","b","u","t"," ","I",
    "'","m"," ","h","a","v","i","n","g"," ","t","r","o","u","b","l","e"," ",
    "g","e","n","e","r","a","t","i","n","g"," ","a"," ","r","e","s","p","o",
    "n","s","e"," ","r","i","g","h","t"," ","n","o","w",".">>
S_EncounteredError ==
    <<"I"," ","a","p","o","l","o","g","i","z","e",","," ","b","u","t"," ","I",
    " ","e","n","c","o","u","n","t","e","r","e","d"," ","a","n"," ","e","r",
    "r","o","r",":"," ">>
S_test ==
    <<"t","e","s","t">>
S_backend_failure ==
    <<"b","a","c","k","e","n","d"," ","f","a","i","l","u","r","e">>
S_Aye ==
    <<"A","y","e",".">>

\* ConversationWorker.__init__; gen is the frame of a generator that
\* process_user_input_stream returned and that is suspended at a yield
NoGen == [open |-> FALSE, user_input |-> <<>>, context |-> <<>>, start_time |-> 0,
          full_response |-> <<>>]
ChatWorkerNew ==
    [llm_worker |-> "none", memory_worker |-> FALSE, conversation_history |-> <<>>,
     total_conversations |-> 0, total_response_time |-> 0, is_initialized |-> FALSE,
     gen |-> NoGen]

\* what the most recent operation of the conversation worker returned (for
\* the stream: what it last yielded) and what its recall had returned
ChatObs(op, user_input, ret, relevant_memories) ==
    [op |-> op, user_input |-> user_input, ret |-> ret,
     relevant_memories |-> relevant_memories]

ChatInit ==
    /\ cw = ChatWorkerNew
    /\ clast = ChatObs("init", <<>>, <<>>, <<>>)

\* the file export_memory writes: 'memories' and 'patterns' as far as json.dump
\* got, and (for reference) the store the export was made of
NoExport == [kind |-> "absent", doc |-> <<>>, patterns |-> [w \in {} |-> 0], of |-> <<>>]
ExportFile(cache, patterns) ==
    [kind |-> IF DumpedPrefix(cache) = cache THEN "json" ELSE "partial",
     doc |-> DumpedPrefix(cache),
     patterns |-> IF DumpedPrefix(cache) = cache THEN patterns ELSE [w \in {} |-> 0],
     of |-> cache]

\* conversation_patterns.update(patterns)
PatternsUpdate(patterns, other) ==
    [w \in DOMAIN patterns \cup DOMAIN other |->
        IF w \in DOMAIN other THEN other[w] ELSE patterns[w]]

\* MemoryWorker.__init__ (initialization_error, which only get_status
\* reads, is left out); llm_worker is "none", "available" or "unavailable"
MemoryWorkerNew ==
    [llm_worker |-> "none", is_initialized |-> FALSE, is_enabled |-> FALSE,
     total_memories_stored |-> 0, total_memories_recalled |-> 0,
     total_summaries_generated |-> 0, conversation_patterns |-> [w \in {} |-> 0],
     mythic_mentions |-> 0]

\* the record of a memory operation: what it was called with and returned,
\* or that it raised
MemoryObs(op, ret, ok, raised, query, max_results) ==
    [op |-> op, ret |-> ret, ok |-> ok, raised |-> raised, query |-> query,
     max_results |-> max_results]

MemoryInit ==
    /\ memory_cache = <<>>
    /\ memory_file = FileAbsent
    /\ mw = MemoryWorkerNew
    /\ now = 1
    /\ mlast = [op |-> "init", ret |-> <<>>, ok |-> TRUE, raised |-> FALSE,
                query |-> PyNone, max_results |-> 0]
    /\ export_file = NoExport
    /\ ChatInit

-----------------------------------------------------------------------------
(* State machine *)

FcpIdle ==
    [user_input |-> "none", llm |-> FALSE, supplied |-> FALSE, passes |-> 0,
     outcome |-> "none"]

\* the record of an operation: which turns it removed and what its pass did
Obs(op, ran, before, after, pass, prev_summary, content_in) ==
    [op |-> op, ran |-> ran, evicted |-> Ids(before) \ Ids(after), fed |-> pass.fed,
     via |-> pass.via, ret |-> pass.ret, writer |-> pass.writer,
     max_length |-> pass.max_length, prev_summary |-> prev_summary,
     content_in |-> content_in]

Init ==
    /\ conversation_history = <<>>
    /\ conversation_summary = <<>>
    /\ cfg \in Configs
    /\ sw = [summarizer |-> FALSE, is_initialized |-> FALSE, is_enabled |-> FALSE]
    /\ abandoned = 0
    /\ pc = "idle"
    /\ fcp = FcpIdle
    /\ last = Obs("init", FALSE, <<>>, <<>>, NoPass(<<>>), <<>>, <<>>)
    /\ nturns = 0
    /\ profile \in Profiles
    /\ MemoryInit

\* the outcomes the model call of an operation can have; a call is made only
\* by a supplied, enabled worker
OutcomesFor(supplied) ==
    IF supplied /\ sw.is_enabled /\ sw.summarizer
    THEN {o \in AIOutcomes : o.kind = "timeout" => abandoned < MaxAbandoned}
    ELSE {AINone}

\* a model call that timed out leaves its thread running
AbandonedAfter(pass) == IF pass.via = "simple_timeout" THEN abandoned + 1 ELSE abandoned

\* a truncation that keeps the stored content within the limit
TruncateWithinLimit(content, max_tokens_per_message) ==
    IF Len(content) > max_tokens_per_message
    THEN Take(content, max_tokens_per_message - 3) \o S_Ellipsis
    ELSE content

\* content[:max] + "..." when too long
Truncate(content, max_tokens_per_message) ==
    IF Len(content) > max_tokens_per_message
    THEN Take(content, max_tokens_per_message) \o S_Ellipsis
    ELSE content

\* an operation stores the outcome r of its memory management
Store(op, before, r, content_in) ==
    /\ conversation_history' = r.history
    /\ conversation_summary' = r.pass.summary
    /\ abandoned' = AbandonedAfter(r.pass)
    /\ last' = Obs(op, r.ran, before, r.history, r.pass, conversation_summary, content_in)

\* the turn add_to_conversation appends
NewTurn(in) ==
    [id |-> nturns + 1, role |-> in.role,
     content |-> Truncate(in.content, cfg.max_tokens_per_message), ctype |-> in.ctype]

\* add_to_conversation(role, content, summarization_worker)
AddToConversation(in, supplied, outcome) ==
    /\ pc = "idle"
    /\ nturns < MaxTurns
    \* bytes[:n] + "..." raises TypeError before anything is appended
    /\ ~(in.ctype = "bytes" /\ Len(in.content) > cfg.max_tokens_per_message)
    /\ Store("add", Append(conversation_history, NewTurn(in)),
             ManageMemory(Append(conversation_history, NewTurn(in)),
                          cfg.max_conversation_length, supplied, sw, conversation_summary,
                          outcome),
             in.content)
    /\ nturns' = nturns + 1
    /\ fcp' = FcpIdle
    /\ UNCHANGED <<cfg, mvars, wvars, sw, pc, profile>>

\* the pass format_chat_prompt runs when the prompt is too long:
\* continuous_summarize with an enabled worker and, when that returns False or
\* there is no such worker, _force_summarization
FormatSummarize(history, supplied, w, summary, outcome) ==
    ContinuousFirst(ContinuousSummarize(history, supplied, w, summary, outcome),
                    supplied, w,
                    ForceSummarization(history, supplied, w, summary, outcome))

\* format_chat_prompt ends, returning the prompt or raising
FormatEnd(f, outcome) ==
    /\ pc' = "idle"
    /\ fcp' = [f EXCEPT !.outcome = outcome]
    /\ last' = IF pc = "idle"
               THEN Obs("format", FALSE, conversation_history, conversation_history,
                        NoPass(conversation_summary), conversation_summary, <<>>)
               ELSE last
    /\ UNCHANGED <<conversation_history, conversation_summary, abandoned>>

\* One execution of the body of format_chat_prompt with the arguments of
\* frame f, where fs is the pass it would run.  It returns the prompt (no
\* llm_worker, or short enough); or it summarizes and calls itself again
\* (pc = "fmt": the inner call is pending); or, with nothing left to
\* summarize, it calls itself again in the same state, and so does every
\* deeper call, until the interpreter's recursion limit raises RecursionError
\* out of the outermost call.
FormatStep(f, too_long, fs) ==
    IF ~too_long THEN FormatEnd(f, "returned")
    ELSE IF fs.ran
    THEN /\ pc' = "fmt"
         /\ fcp' = [f EXCEPT !.outcome = "running", !.passes = @ + 1]
         /\ Store("format", conversation_history, fs, <<>>)
    ELSE FormatEnd(f, "RecursionError")

\* the prompt format_chat_prompt builds from the buffer for user input u
CurrentPrompt(u) == BuildPrompt(conversation_history, conversation_summary, UserInputs[u])

FormatBody(f, outcome) ==
    FormatStep(f, f.llm /\ OverBudget(CurrentPrompt(f.user_input)),
               FormatSummarize(conversation_history, f.supplied, sw, conversation_summary,
                               outcome))

\* format_chat_prompt(user_input, llm_worker, summarization_worker) is called
FormatChatPrompt(user_input, llm, supplied, outcome) ==
    /\ pc = "idle"
    /\ FormatBody([user_input |-> user_input, llm |-> llm, supplied |-> supplied,
                   passes |-> 0, outcome |-> "running"], outcome)
    /\ UNCHANGED <<cfg, mvars, wvars, sw, nturns, profile>>

\* the call format_chat_prompt makes to itself after a pass
FormatReenter(outcome) ==
    /\ pc = "fmt"
    /\ FormatBody(fcp, outcome)
    /\ UNCHANGED <<cfg, mvars, wvars, sw, nturns, profile>>

\* the orchestrator's periodic memory optimization after a user turn
PeriodicOptimization(outcome) ==
    /\ pc = "idle"
    /\ Len(conversation_history) % cfg.auto_summarize_interval = 0
    /\ Len(conversation_history) > cfg.memory_compression_threshold
    /\ Store("periodic", conversation_history,
             ContinuousSummarize(conversation_history, TRUE, sw, conversation_summary,
                                 outcome),
             <<>>)
    /\ fcp' = FcpIdle
    /\ UNCHANGED <<cfg, mvars, wvars, sw, pc, nturns, profile>>

\* force_summarize_now(summarization_worker)
ForceSummarizeNow(supplied, outcome) ==
    /\ pc = "idle"
    /\ Len(conversation_history) > 4
    /\ Store("force_now", conversation_history,
             ForceSummarization(conversation_history, supplied, sw, conversation_summary,
                                outcome),
             <<>>)
    /\ fcp' = FcpIdle
    /\ UNCHANGED <<cfg, mvars, wvars, sw, pc, nturns, profile>>

\* clear_conversation()
ClearConversation ==
    /\ pc = "idle"
    /\ conversation_history # <<>> \/ conversation_summary # <<>>
    /\ conversation_history' = <<>>
    /\ conversation_summary' = <<>>
    /\ last' = Obs("clear", FALSE, <<>>, <<>>, NoPass(<<>>), conversation_summary, <<>>)
    /\ fcp' = FcpIdle
    /\ nturns' = 0
    /\ UNCHANGED <<cfg, mvars, wvars, sw, abandoned, pc, profile>>

\* SummarizationWorker.reload_model(): ok when the load and the self-test succeed
ReloadModel(ok) ==
    /\ pc = "idle"
    /\ sw' = IF sw.summarizer /\ sw.is_enabled THEN sw
             ELSE IF ok THEN [sw EXCEPT !.summarizer = TRUE, !.is_enabled = TRUE]
             ELSE [sw EXCEPT !.summarizer = FALSE, !.is_enabled = FALSE]
    /\ UNCHANGED <<conversation_history, conversation_summary, cfg, mvars, wvars, abandoned, pc, fcp,
                   last, nturns, profile>>

\* SummarizationWorker.cleanup()
Cleanup ==
    /\ pc = "idle"
    /\ sw.summarizer
    /\ sw' = [summarizer |-> FALSE, is_initialized |-> FALSE, is_enabled |-> FALSE]
    /\ UNCHANGED <<conversation_history, conversation_summary, cfg, mvars, wvars, abandoned, pc, fcp,
                   last, nturns, profile>>

\* an initialize that enables the worker when the model loads
InitializeEnables(ok) ==
    /\ pc = "idle"
    /\ sw' = IF ok
             THEN [sw EXCEPT !.summarizer = TRUE, !.is_initialized = TRUE,
                             !.is_enabled = TRUE]
             ELSE [sw EXCEPT !.is_initialized = FALSE]
    /\ UNCHANGED <<conversation_history, conversation_summary, cfg, mvars, wvars, abandoned, pc, fcp,
                   last, nturns, profile>>

\* SummarizationWorker.initialize(): ok when the model loads.  It assigns
\* summarizer and is_initialized, never is_enabled (initialization_error,
\* which only get_status reads, is left out).
Initialize(ok) ==
    /\ pc = "idle"
    /\ sw' = IF ok THEN [sw EXCEPT !.summarizer = TRUE, !.is_initialized = TRUE]
             ELSE [sw EXCEPT !.is_initialized = FALSE]
    /\ UNCHANGED <<conversation_history, conversation_summary, cfg, mvars, wvars, abandoned, pc, fcp,
                   last, nturns, profile>>

\* the outcomes of the model call of a direct call of the worker: those of
\* OutcomesFor and an exception that reports an access violation
CallOutcomes ==
    IF sw.is_enabled /\ sw.summarizer
    THEN OutcomesFor(TRUE) \cup {AIRaiseMsg(T_AccessViolation)}
    ELSE {AINone}

\* the record of a call of a method of the worker
WorkerCall(op, r, conversation_text, current_summary, max_length, arg_types) ==
    [op |-> op, ran |-> FALSE, evicted |-> {}, fed |-> {}, via |-> r.via, ret |-> r.ret,
     writer |-> "none", max_length |-> max_length, prev_summary |-> current_summary,
     content_in |-> conversation_text, arg_types |-> arg_types]

AllStr == <<"str", "str", "int">>

\* a method of the worker is called and returns r
CallWorker(op, r, conversation_text, current_summary, max_length, arg_types) ==
    /\ pc = "idle"
    /\ sw' = r.w
    /\ abandoned' = AbandonedAfter(r)
    /\ last' = WorkerCall(op, r, conversation_text, current_summary, max_length, arg_types)
    /\ fcp' = FcpIdle
    /\ UNCHANGED <<conversation_history, conversation_summary, cfg, mvars, wvars, pc, nturns, profile>>

\* create_ai_summary(text, max_length) is called
CreateAiSummaryCall(text, max_length, outcome) ==
    /\ nturns <= MaxCallTurns
    /\ CallWorker("create_ai_summary", CreateAiSummary(sw, text, max_length, outcome),
                  text, <<>>, max_length, AllStr)

\* the result of a method that leaves the worker's fields alone
KeepWorker(r, w) == [ret |-> r.ret, via |-> r.via, w |-> w]

\* create_continuous_summary(conversation_text, current_summary, max_length) is called
CreateContinuousSummaryCall(conversation_text, current_summary, max_length, outcome) ==
    /\ nturns <= MaxCallTurns
    /\ CallWorker("create_continuous_summary",
                  KeepWorker(CreateContinuousSummary(sw, conversation_text, current_summary,
                                                     max_length, outcome), sw),
                  conversation_text, current_summary, max_length, AllStr)

\* a _create_simple_summary that answers with the generic sentence while the
\* worker is enabled
CreateSimpleSummaryCallByState(conversation_text, current_summary, max_length) ==
    /\ nturns <= MaxCallTurns
    /\ CallWorker("_create_simple_summary",
                  [ret |-> Some(IF sw.is_enabled THEN S_Generic
                                ELSE CreateSimpleSummaryTry(conversation_text,
                                                            current_summary, max_length)),
                   via |-> "simple", w |-> sw],
                  conversation_text.s, current_summary.s, max_length.n,
                  <<conversation_text.type, current_summary.type, max_length.type>>)

\* _create_simple_summary(conversation_text, current_summary, max_length) is called
CreateSimpleSummaryCall(conversation_text, current_summary, max_length) ==
    /\ nturns <= MaxCallTurns
    /\ CallWorker("_create_simple_summary",
                  [ret |-> Some(CreateSimpleSummaryTry(conversation_text, current_summary,
                                                       max_length)),
                   via |-> "simple", w |-> sw],
                  conversation_text.s, current_summary.s, max_length.n,
                  <<conversation_text.type, current_summary.type, max_length.type>>)

\* get_conversation_context(query, summarization_worker) is called
GetConversationContext(query, supplied, outcome) ==
    /\ nturns <= MaxCallTurns + 1
    /\ CallWorker("get_conversation_context",
                  ContextSummary(conversation_history, query, supplied, sw, outcome),
                  query, <<>>, 150, AllStr)

\* a late thread that stores its response as the conversation summary
LateCompleteStoresResponse ==
    /\ abandoned > 0
    /\ abandoned' = abandoned - 1
    /\ conversation_summary' = <<"l","a","t","e"," ","s","u","m","m","a","r","y">>
    /\ UNCHANGED <<conversation_history, cfg, mvars, wvars, sw, pc, fcp, last, nturns, profile>>

\* the thread of a timed-out model call finishes: generate_incremental_summary
\* stores the response in its own result list, which no one reads any more
LateComplete ==
    /\ abandoned > 0
    /\ abandoned' = abandoned - 1
    /\ UNCHANGED <<conversation_history, conversation_summary, cfg, mvars, wvars, sw, pc, fcp, last,
                   nturns, profile>>

Next ==
    \/ \E in \in Inputs(profile, nturns + 1), supplied \in BOOLEAN :
          \E outcome \in OutcomesFor(supplied) : AddToConversation(in, supplied, outcome)
    \/ \E a \in FormatArgs :
          \E outcome \in OutcomesFor(a.supplied) :
             FormatChatPrompt(a.user_input, a.llm, a.supplied, outcome)
    \/ \E outcome \in OutcomesFor(fcp.supplied) : FormatReenter(outcome)
    \/ \E outcome \in OutcomesFor(TRUE) : PeriodicOptimization(outcome)
    \/ \E supplied \in BOOLEAN :
          \E outcome \in OutcomesFor(supplied) : ForceSummarizeNow(supplied, outcome)
    \/ ClearConversation
    \/ \E ok \in BOOLEAN : ReloadModel(ok)
    \/ Cleanup
    \/ LateComplete

Spec == Init /\ [][Next]_vars

\* The summarization worker through its whole life cycle: one session of
\* "chat" turns in which the worker's own methods and
\* get_conversation_context are called as well as the operations that
\* append and summarize turns.
InitWorker == Init /\ profile = "chat"

NextWorker ==
    \/ \E in \in Inputs(profile, nturns + 1), supplied \in BOOLEAN :
          \E outcome \in OutcomesFor(supplied) : AddToConversation(in, supplied, outcome)
    \/ \E outcome \in OutcomesFor(TRUE) : PeriodicOptimization(outcome)
    \/ \E supplied \in BOOLEAN :
          \E outcome \in OutcomesFor(supplied) : ForceSummarizeNow(supplied, outcome)
    \/ \E ok \in BOOLEAN : ReloadModel(ok)
    \/ Cleanup
    \/ LateComplete
    \/ \E ok \in BOOLEAN : Initialize(ok)
    \/ \E text \in CallTexts, max_length \in CallMaxLengths :
          \E outcome \in CallOutcomes : CreateAiSummaryCall(text, max_length, outcome)
    \/ \E text \in CallTexts, current_summary \in CallSummaries,
          max_length \in CallMaxLengths :
          \E outcome \in CallOutcomes :
             CreateContinuousSummaryCall(text, current_summary, max_length, outcome)
    \/ \E a \in SimpleArgs :
          CreateSimpleSummaryCall(a.conversation_text, a.current_summary, a.max_length)
    \/ \E supplied \in BOOLEAN :
          \E outcome \in CallOutcomes : GetConversationContext(T_Query, supplied, outcome)

SpecWorker == InitWorker /\ [][NextWorker]_vars

-----------------------------------------------------------------------------
(* The long-term memory: one MemoryWorker and its backing file *)

MaxStored == 2          \* store_conversation_memory calls of one worker
MaxRecalled == 1        \* memories handed out by one worker's recalls
MaxNow == 3601          \* the last reading of the clock

\* the clock is read again one TTL later
Delays == {MemoryConfig.memory_ttl_hours * 3600}

\* "My name is Alice" / "Well met, Alice"
M_Alice ==
    [user_input |-> <<"M","y"," ","n","a","m","e"," ","i","s"," ","A","l","i","c","e">>,
     ai_response |-> <<"W","e","l","l"," ","m","e","t",","," ","A","l","i","c","e">>]
\* "Tell me about the north road" / "The road runs past Mythic ford"
M_Road ==
    [user_input |-> <<"T","e","l","l"," ","m","e"," ","a","b","o","u","t"," ","t","h","e",
                      " ","n","o","r","t","h"," ","r","o","a","d">>,
     ai_response |-> <<"T","h","e"," ","r","o","a","d"," ","r","u","n","s"," ","p","a","s",
                       "t"," ","M","y","t","h","i","c"," ","f","o","r","d">>]

\* the exchanges store_conversation_memory is called with
Exchanges == {M_Alice, M_Road}

\* what the LLM worker answers to a summary request: "Talk of the north road."
S_RoadTalk ==
    <<"T","a","l","k"," ","o","f"," ","t","h","e"," ","n","o","r","t","h"," ","r","o","a",
      "d",".">>
MemoryOutcomes == {AIText(S_RoadTalk)}

\* create_memory_summary is reached only for a combined text over 50 characters
OutcomesOfExchange(x) ==
    IF Len(CombinedText(x.user_input, x.ai_response)) > 50 THEN MemoryOutcomes
    ELSE {AINone}

\* the queries and result limits recall_relevant_memory is called with
Q_Alice == <<"A","l","i","c","e">>
Q_road == <<"r","o","a","d">>
Q_north_road == <<"n","o","r","t","h"," ","r","o","a","d">>
Queries == {PyStr(Q_Alice), PyStr(Q_north_road), PyNone}
MaxResults == {1, 5}

\* the 'memories' of the files import_memory is given: one memory of
\* "the old road" / "aye", written a second before the clock's first reading,
\* under the key a store at that time would use; and no file at all
ImportedData(timestamp) ==
    [timestamp |-> timestamp,
     user_input |-> <<"t","h","e"," ","o","l","d"," ","r","o","a","d">>,
     ai_response |-> <<"a","y","e">>, context |-> EmptyDict, summary |-> None,
     keywords |-> [type |-> "list", items |-> {Q_road}]]
ImportedOld == << [key |-> MemoryKey(0), data |-> ImportedData(0)] >>
ImportFiles == {[exists |-> TRUE, memories |-> ImportedOld],
                [exists |-> FALSE, memories |-> <<>>]}

\* set_llm_worker(llm_worker), once, while the worker is set up
SetLlmWorker(llm_worker) ==
    /\ mw.llm_worker = "none"
    /\ mw' = [mw EXCEPT !.llm_worker = llm_worker,
                        !.is_enabled = (llm_worker = "available")]
    /\ mlast' = MemoryObs("set_llm_worker", <<>>, TRUE, FALSE, PyNone, 0)
    /\ UNCHANGED <<memory_cache, memory_file, now, cvars, wvars>>

\* initialize(): io is what reading the backing file does
InitializeMemory(io) ==
    /\ IF mw.llm_worker # "available"
       THEN /\ mw' = [mw EXCEPT !.is_initialized = FALSE, !.is_enabled = FALSE]
            /\ memory_cache' = memory_cache
            /\ mlast' = MemoryObs("initialize", <<>>, FALSE, FALSE, PyNone, 0)
       ELSE /\ mw' = [mw EXCEPT !.is_initialized = TRUE, !.is_enabled = TRUE]
            /\ memory_cache' = CleanupExpired(LoadMemory(memory_file, io), now)
            /\ mlast' = MemoryObs("initialize", <<>>, TRUE, FALSE, PyNone, 0)
    /\ UNCHANGED <<memory_file, now, cvars, wvars>>

\* what store_conversation_memory does to the worker's counters
StoredWorker(w, user_input, ai_response, outcome) ==
    [UpdateConversationPatterns(w, user_input, ai_response) EXCEPT
        !.total_summaries_generated =
            @ + EntrySummary(w, user_input, ai_response, outcome).generated,
        !.total_memories_stored = @ + 1]

\* the cache after store_conversation_memory at clock reading t
StoredCache(w, cache, t, user_input, ai_response, outcome) ==
    DictSet(cache, MemoryKey(t), ConversationEntry(w, t, user_input, ai_response, outcome))

\* a store that takes its record back when the file could not be written
StoreRollsBack(user_input, ai_response, outcome, io) ==
    /\ mw.total_memories_stored < MaxStored
    /\ IF ~mw.is_enabled
       THEN UNCHANGED <<memory_cache, memory_file, mw>>
       ELSE /\ memory_file' = SaveMemory(StoredCache(mw, memory_cache, now, user_input,
                                                     ai_response, outcome),
                                         memory_file, io)
            /\ memory_cache' = IF memory_file'.kind = "json"
                               THEN StoredCache(mw, memory_cache, now, user_input,
                                                ai_response, outcome)
                               ELSE memory_cache
            /\ mw' = StoredWorker(mw, user_input, ai_response, outcome)
    /\ mlast' = MemoryObs("store", <<>>, TRUE, FALSE, PyNone, 0)
    /\ UNCHANGED <<now, cvars, wvars>>

\* store_conversation_memory(user_input, ai_response, context): outcome is what
\* the LLM answers, io what writing the backing file does
StoreConversationMemory(user_input, ai_response, outcome, io) ==
    /\ mw.total_memories_stored < MaxStored
    /\ IF ~mw.is_enabled
       THEN UNCHANGED <<memory_cache, memory_file, mw>>
       ELSE /\ memory_cache' = StoredCache(mw, memory_cache, now, user_input, ai_response,
                                           outcome)
            /\ memory_file' = SaveMemory(memory_cache', memory_file, io)
            /\ mw' = StoredWorker(mw, user_input, ai_response, outcome)
    /\ mlast' = MemoryObs("store", <<>>, TRUE, FALSE, PyNone, 0)
    /\ UNCHANGED <<now, cvars, wvars>>

\* recall_relevant_memory(query, max_results).  len(query) is taken before
\* the try block, so a query that is not a str raises TypeError once the
\* guard has let the call through.
RecallReturns(query, max_results, ret) ==
    /\ mlast' = MemoryObs("recall", ret, TRUE, FALSE, query, max_results)
    /\ mw' = [mw EXCEPT !.total_memories_recalled = @ + Len(ret)]

RecallRelevantMemoryCall(query, max_results) ==
    /\ mw.total_memories_recalled < MaxRecalled
    /\ IF mw.is_enabled /\ memory_cache # <<>> /\ query.type # "str"
       THEN /\ mlast' = MemoryObs("recall", <<>>, FALSE, TRUE, query, max_results)
            /\ mw' = mw
       ELSE RecallReturns(query, max_results,
                          RecallRelevantMemory(mw, memory_cache, query.s, max_results))
    /\ UNCHANGED <<memory_cache, memory_file, now, cvars, wvars>>

\* _cleanup_expired_memories() is called; what is recorded is expired_keys,
\* whose length it logs
CleanupExpiredMemories ==
    /\ memory_cache' = CleanupExpired(memory_cache, now)
    /\ mlast' = MemoryObs("_cleanup_expired_memories", ExpiredKeys(memory_cache, now),
                          TRUE, FALSE, PyNone, 0)
    /\ UNCHANGED <<memory_file, mw, now, cvars, wvars>>

\* a clear_memory that empties the dicts and leaves the file
ClearMemoryKeepsFile(io) ==
    /\ memory_cache' = <<>>
    /\ mw' = [mw EXCEPT !.conversation_patterns = [w \in {} |-> 0], !.mythic_mentions = 0]
    /\ memory_file' = memory_file
    /\ mlast' = MemoryObs("clear_memory", <<>>, TRUE, FALSE, PyNone, 0)
    /\ UNCHANGED <<now, cvars, wvars>>

\* clear_memory(): io is what unlinking the backing file does
ClearMemory(io) ==
    /\ memory_cache' = <<>>
    /\ mw' = [mw EXCEPT !.conversation_patterns = [w \in {} |-> 0], !.mythic_mentions = 0]
    /\ memory_file' = IF memory_file.kind # "absent" /\ io = "ok" THEN FileAbsent
                      ELSE memory_file
    /\ mlast' = MemoryObs("clear_memory", <<>>, TRUE, FALSE, PyNone, 0)
    /\ UNCHANGED <<now, cvars, wvars>>

\* cleanup(): saves, then disables
CleanupMemory(io) ==
    /\ memory_file' = SaveMemory(memory_cache, memory_file, io)
    /\ mw' = [mw EXCEPT !.is_initialized = FALSE, !.is_enabled = FALSE]
    /\ mlast' = MemoryObs("cleanup", <<>>, TRUE, FALSE, PyNone, 0)
    /\ UNCHANGED <<memory_cache, now, cvars, wvars>>

\* import_memory(file_path): f is the file at file_path, io what writing the
\* backing file does
ImportMemory(f, io) ==
    /\ IF ~f.exists
       THEN /\ UNCHANGED <<memory_cache, memory_file>>
            /\ mlast' = MemoryObs("import_memory", <<>>, FALSE, FALSE, PyNone, 0)
       ELSE /\ memory_cache' = DictUpdate(memory_cache, f.memories)
            /\ memory_file' = SaveMemory(memory_cache', memory_file, io)
            /\ mlast' = MemoryObs("import_memory", <<>>, TRUE, FALSE, PyNone, 0)
    /\ UNCHANGED <<mw, now, cvars, wvars>>

\* time passes
Tick(d) ==
    /\ now + d <= MaxNow
    /\ now' = now + d
    /\ UNCHANGED <<memory_cache, memory_file, mw, mlast, cvars, wvars>>

SaveOutcomes == {"ok", "write_fails"}

NextMemory ==
    \/ \E l \in {"available", "unavailable"} : SetLlmWorker(l)
    \/ \E io \in {"ok", "read_fails"} : InitializeMemory(io)
    \/ \E x \in Exchanges, io \in SaveOutcomes :
          \E outcome \in OutcomesOfExchange(x) :
             StoreConversationMemory(x.user_input, x.ai_response, outcome, io)
    \/ \E query \in Queries, max_results \in MaxResults :
          RecallRelevantMemoryCall(query, max_results)
    \/ CleanupExpiredMemories
    \/ \E io \in {"ok", "unlink_fails"} : ClearMemory(io)
    \/ CleanupMemory("ok")
    \/ \E f \in ImportFiles : ImportMemory(f, "ok")
    \/ \E d \in Delays : Tick(d)

\* The long-term memory on its own: the conversation side stays as
\* constructed.
InitMemory == Init /\ profile = "chat"

SpecMemory == InitMemory /\ [][NextMemory]_vars

\* export_memory(file_path): 'memories' is dumped first, so the dump stops at
\* the first record that holds a set; the exception is logged, False returned
ExportMemory ==
    /\ export_file' = ExportFile(memory_cache, mw.conversation_patterns)
    /\ mlast' = MemoryObs("export_memory", <<>>, export_file'.kind = "json", FALSE,
                          PyNone, 0)
    /\ UNCHANGED <<memory_cache, memory_file, mw, now, cw, clast, cvars>>

\* import_memory(file_path) of the file export_memory wrote: json.load fails
\* when the file is missing or cut short; 'memories' and 'patterns' are merged
ImportExportedMemory(io) ==
    /\ IF export_file.kind # "json"
       THEN /\ UNCHANGED <<memory_cache, memory_file, mw>>
            /\ mlast' = MemoryObs("import_exported", <<>>, FALSE, FALSE, PyNone, 0)
       ELSE /\ memory_cache' = DictUpdate(memory_cache, export_file.doc)
            /\ mw' = [mw EXCEPT !.conversation_patterns =
                                    PatternsUpdate(@, export_file.patterns)]
            /\ memory_file' = SaveMemory(memory_cache', memory_file, io)
            /\ mlast' = MemoryObs("import_exported", <<>>, TRUE, FALSE, PyNone, 0)
    /\ UNCHANGED <<now, export_file, cw, clast, cvars>>

\* Export and import of the store: stores, imports of another file, clears
\* and the passing of time around export_memory and the import of its file.
NextExport ==
    \/ \E l \in {"available", "unavailable"} : SetLlmWorker(l)
    \/ \E x \in Exchanges, io \in SaveOutcomes :
          \E outcome \in OutcomesOfExchange(x) :
             StoreConversationMemory(x.user_input, x.ai_response, outcome, io)
    \/ \E f \in ImportFiles : ImportMemory(f, "ok")
    \/ ExportMemory
    \/ \E io \in {"ok", "unlink_fails"} : ClearMemory(io)
    \/ ImportExportedMemory("ok")
    \/ \E d \in Delays : Tick(d)

SpecExport == InitMemory /\ [][NextExport]_vars

-----------------------------------------------------------------------------
(* workers.ConversationWorker: one user turn at a time, over the LLM worker *)
(* and the long-term memory                                                *)

\* an entry of conversation_history
Turn(role, content, timestamp) ==
    [role |-> role, content |-> content, timestamp |-> timestamp]

\* the user turn is appended first
WithUserTurn(w, user_input, t) ==
    [w EXCEPT !.conversation_history = Append(@, Turn("user", user_input, t))]

\* `self.memory_worker and self.memory_worker.is_enabled`
MemoryAvailable(w, m) == w.memory_worker /\ m.is_enabled

\* relevant_memories: recall_relevant_memory(user_input), max_results 5
RelevantMemoriesFor(w, m, cache, user_input) ==
    IF MemoryAvailable(w, m) THEN RecallRelevantMemory(m, cache, user_input, 5)
    ELSE <<>>

\* _build_context, called after the user turn was appended (the 'system' and
\* 'conversation' parts, copied from the configuration, are left out)
BuildContext(w, user_input, relevant_memories, t) ==
    << [key |-> "user_input", data |-> user_input],
       [key |-> "timestamp", data |-> t],
       [key |-> "conversation_count", data |-> w.total_conversations],
       [key |-> "relevant_memories", data |-> relevant_memories],
       [key |-> "conversation_history_length", data |-> Len(w.conversation_history) + 1] >>

\* process_user_input: `if not response:` puts the apology in place of None
\* and of the empty string
ResponseOrApology(llm) ==
    IF llm.kind = "text" /\ llm.text # <<>> THEN llm.text ELSE S_Apology

\* process_user_input_stream: accumulated_response is the last full_response,
\* or "" when the stream yielded nothing
Accumulated(llm) == IF llm.kind = "text" THEN llm.text ELSE <<>>

\* the assistant turn is appended and the metrics are updated at clock reading t
WithAssistantTurn(w, response, start_time, t) ==
    [w EXCEPT !.conversation_history = Append(@, Turn("assistant", response, t)),
              !.total_conversations = @ + 1,
              !.total_response_time = @ + (t - start_time)]

\* the memory worker after the recall of a turn
AfterRecall(m, relevant_memories) ==
    [m EXCEPT !.total_memories_recalled = @ + Len(relevant_memories)]

\* the record store_conversation_memory(user_input, response, context) makes
ChatEntry(m, t, user_input, response, context, outcome) ==
    [ConversationEntry(m, t, user_input, response, outcome) EXCEPT !.context = context]

\* the recall of a turn on its own: the call of the LLM raised after it
RecallOnly(user_input, relevant_memories) ==
    IF MemoryAvailable(cw, mw)
    THEN /\ mw' = AfterRecall(mw, relevant_memories)
         /\ mlast' = MemoryObs("recall", relevant_memories, TRUE, FALSE, PyStr(user_input), 5)
    ELSE UNCHANGED <<mw, mlast>>

\* store_conversation_memory(user_input, response, context) at the end of a
\* turn, at clock reading t, by the memory worker m
StoreOfTurn(m, user_input, response, context, outcome, io, t) ==
    IF MemoryAvailable(cw, mw)
    THEN /\ memory_cache' = DictSet(memory_cache, MemoryKey(t),
                                    ChatEntry(m, t, user_input, response, context, outcome))
         /\ memory_file' = SaveMemory(memory_cache', memory_file, io)
         /\ mw' = StoredWorker(m, user_input, response, outcome)
         /\ mlast' = MemoryObs("store", <<>>, TRUE, FALSE, PyNone, 0)
    ELSE UNCHANGED <<memory_cache, memory_file, mw, mlast>>

\* a turn whose store comes before its recall
TurnStoresFirst(op, user_input, llm, outcome, io, elapsed) ==
    /\ cw' = WithAssistantTurn(WithUserTurn(cw, user_input, now), ResponseOrApology(llm),
                               now, now + elapsed)
    /\ StoreOfTurn(mw, user_input, ResponseOrApology(llm),
                   BuildContext(cw, user_input, <<>>, now), outcome, io, now + elapsed)
    /\ clast' = ChatObs(op, user_input, ResponseOrApology(llm),
                        RelevantMemoriesFor(cw, mw, memory_cache', user_input))
    /\ now' = now + elapsed

\* the body of process_user_input once the LLM worker was found available and
\* the LLM has answered: user turn, recall, context, response, assistant
\* turn, store, metrics.  elapsed is the time the call takes.
TurnCompleted(op, user_input, llm, outcome, io, elapsed) ==
    /\ cw' = WithAssistantTurn(WithUserTurn(cw, user_input, now), ResponseOrApology(llm),
                               now, now + elapsed)
    /\ StoreOfTurn(AfterRecall(mw, RelevantMemoriesFor(cw, mw, memory_cache, user_input)),
                   user_input, ResponseOrApology(llm),
                   BuildContext(cw, user_input,
                                RelevantMemoriesFor(cw, mw, memory_cache, user_input), now),
                   outcome, io, now + elapsed)
    /\ clast' = ChatObs(op, user_input, ResponseOrApology(llm),
                        RelevantMemoriesFor(cw, mw, memory_cache, user_input))
    /\ now' = now + elapsed

\* the body of process_user_input when something inside the try raises after
\* the recall: the except clause returns the apology with str(e); the user
\* turn stays
TurnRaised(op, user_input, llm, elapsed) ==
    /\ cw' = WithUserTurn(cw, user_input, now)
    /\ RecallOnly(user_input, RelevantMemoriesFor(cw, mw, memory_cache, user_input))
    /\ clast' = ChatObs(op, user_input, S_EncounteredError \o llm.text,
                        RelevantMemoriesFor(cw, mw, memory_cache, user_input))
    /\ now' = now + elapsed
    /\ UNCHANGED <<memory_cache, memory_file>>

\* process_user_input(user_input) from its first line
ProcessBody(op, user_input, llm, outcome, io, elapsed) ==
    IF cw.llm_worker # "available"
    THEN /\ clast' = ChatObs(op, user_input, S_SystemNotAvailable, <<>>)
         /\ UNCHANGED <<cw, mvars>>
    ELSE IF llm.kind = "raise"
    THEN TurnRaised(op, user_input, llm, elapsed)
    ELSE TurnCompleted(op, user_input, llm, outcome, io, elapsed)

\* set_workers(llm_worker, memory_worker), once
SetWorkers(llm_worker, memory_worker) ==
    /\ cw.llm_worker = "none"
    /\ cw' = [cw EXCEPT !.llm_worker = llm_worker, !.memory_worker = memory_worker]
    /\ clast' = ChatObs("set_workers", <<>>, <<>>, <<>>)
    /\ UNCHANGED <<mvars, export_file, cvars>>

\* ConversationWorker.initialize()
InitializeChat ==
    /\ ~cw.is_initialized
    /\ cw.llm_worker # "none"
    /\ cw' = [cw EXCEPT !.is_initialized = (cw.llm_worker = "available")]
    /\ clast' = ChatObs("initialize", <<>>, <<>>, <<>>)
    /\ UNCHANGED <<mvars, export_file, cvars>>

\* process_user_input(user_input): llm is what generate_chat_response does,
\* outcome what the LLM answers to the memory worker's summary request, io what
\* writing the backing file does
ProcessUserInput(user_input, llm, outcome, io, elapsed) ==
    /\ ~cw.gen.open
    /\ Len(cw.conversation_history) + 2 <= MaxChatHistory
    /\ ProcessBody("process_user_input", user_input, llm, outcome, io, elapsed)
    /\ UNCHANGED <<export_file, cvars>>

\* the first next() on the generator of process_user_input_stream(user_input):
\* it runs to the first yield.  Tokens suspend it inside the loop; a stream
\* without tokens lets it run to its end with accumulated_response "".
StreamStart(user_input, llm, outcome, io, elapsed) ==
    /\ ~cw.gen.open
    /\ Len(cw.conversation_history) + 2 <= MaxChatHistory
    /\ IF cw.llm_worker # "available"
       THEN /\ clast' = ChatObs("process_user_input_stream", user_input,
                                S_SystemNotAvailable, <<>>)
            /\ UNCHANGED <<cw, mvars>>
       ELSE IF llm.kind = "raise"
       THEN TurnRaised("process_user_input_stream", user_input, llm, elapsed)
       ELSE IF Accumulated(llm) = <<>>
       THEN /\ cw' = WithAssistantTurn(WithUserTurn(cw, user_input, now), <<>>, now,
                                       now + elapsed)
            /\ StoreOfTurn(AfterRecall(mw, RelevantMemoriesFor(cw, mw, memory_cache,
                                                               user_input)),
                           user_input, <<>>,
                           BuildContext(cw, user_input,
                                        RelevantMemoriesFor(cw, mw, memory_cache,
                                                            user_input), now),
                           outcome, io, now + elapsed)
            /\ clast' = ChatObs("process_user_input_stream", user_input, <<>>,
                                RelevantMemoriesFor(cw, mw, memory_cache, user_input))
            /\ now' = now + elapsed
       ELSE /\ cw' = [WithUserTurn(cw, user_input, now) EXCEPT !.gen =
                        [open |-> TRUE, user_input |-> user_input,
                         context |-> BuildContext(cw, user_input,
                                                  RelevantMemoriesFor(cw, mw, memory_cache,
                                                                      user_input), now),
                         start_time |-> now, full_response |-> Accumulated(llm)]]
            /\ RecallOnly(user_input, RelevantMemoriesFor(cw, mw, memory_cache, user_input))
            /\ clast' = ChatObs("stream_token", user_input, Accumulated(llm),
                                RelevantMemoriesFor(cw, mw, memory_cache, user_input))
            /\ UNCHANGED <<memory_cache, memory_file, now>>
    /\ UNCHANGED <<export_file, cvars>>

\* the caller iterates to the end of the stream: assistant turn, store, metrics
StreamFinish(outcome, io, elapsed) ==
    /\ cw.gen.open
    /\ cw' = [WithAssistantTurn(cw, cw.gen.full_response, cw.gen.start_time, now + elapsed)
                 EXCEPT !.gen = NoGen]
    /\ StoreOfTurn(mw, cw.gen.user_input, cw.gen.full_response, cw.gen.context, outcome, io,
                   now + elapsed)
    /\ clast' = ChatObs("stream_end", cw.gen.user_input, cw.gen.full_response,
                        clast.relevant_memories)
    /\ now' = now + elapsed
    /\ UNCHANGED <<export_file, cvars>>

\* the caller stops iterating and drops the generator: GeneratorExit is raised
\* at the yield, which `except Exception` does not catch, and nothing after
\* the loop runs
StreamClose ==
    /\ cw.gen.open
    /\ cw' = [cw EXCEPT !.gen = NoGen]
    /\ clast' = ChatObs("stream_closed", cw.gen.user_input, <<>>, clast.relevant_memories)
    /\ UNCHANGED <<mvars, export_file, cvars>>

\* is_available()
ChatAvailable(w) == w.is_initialized /\ w.llm_worker = "available"

\* health_check(): when the worker is available it calls
\* process_user_input("test")
HealthCheck(llm, outcome, io, elapsed) ==
    /\ ~cw.gen.open
    /\ Len(cw.conversation_history) + 2 <= MaxChatHistory
    /\ IF ChatAvailable(cw)
       THEN ProcessBody("health_check", S_test, llm, outcome, io, elapsed)
       ELSE /\ clast' = ChatObs("health_check", S_test, <<>>, <<>>)
            /\ UNCHANGED <<cw, mvars>>
    /\ UNCHANGED <<export_file, cvars>>

\* what the user says, and what the LLM does with it: an answer, an empty
\* answer, None, or an exception that reaches process_user_input
ChatInputs == {x.user_input : x \in Exchanges}
AnswerTo(user_input) ==
    IF user_input = S_test THEN S_Aye
    ELSE (CHOOSE x \in Exchanges : x.user_input = user_input).ai_response
ChatOutcomes(user_input) ==
    {AIText(AnswerTo(user_input)), AIText(<<>>), AINone, AIRaiseMsg(S_backend_failure)}

\* what the LLM answers when the memory worker asks it for a summary of an
\* exchange of more than 50 characters
SummaryOutcomes == MemoryOutcomes

\* the seconds a call takes on the clock
Elapsed == {1}

NextChat ==
    \/ SetLlmWorker("available")
    \/ \E l \in {"available", "unavailable"}, m \in BOOLEAN : SetWorkers(l, m)
    \/ InitializeChat
    \/ \E user_input \in ChatInputs, elapsed \in Elapsed, outcome \in SummaryOutcomes :
          \E llm \in ChatOutcomes(user_input) :
             ProcessUserInput(user_input, llm, outcome, "ok", elapsed)
    \/ \E user_input \in ChatInputs, elapsed \in Elapsed, outcome \in SummaryOutcomes :
          \E llm \in ChatOutcomes(user_input) :
             StreamStart(user_input, llm, outcome, "ok", elapsed)
    \/ \E outcome \in SummaryOutcomes, elapsed \in Elapsed : StreamFinish(outcome, "ok", elapsed)
    \/ StreamClose
    \/ \E llm \in ChatOutcomes(S_test), outcome \in SummaryOutcomes, elapsed \in Elapsed :
          HealthCheck(llm, outcome, "ok", elapsed)

SpecChat == InitMemory /\ [][NextChat]_vars

-----------------------------------------------------------------------------
(* Properties *)

\* C1 (as stated): each time add_to_conversation returns, the buffer holds at
\* most max_conversation_length turns.
C1_BufferBound ==
    last.op = "add" => Len(conversation_history) <= cfg.max_conversation_length

\* C2 (as stated): every operation that removes turns hands the content of
\* every removed turn to a summarizer within that operation.
C2_EvictedAreSummarized == last.evicted \subseteq last.fed

\* the model call of the last pass raised, returned None, or returned a
\* result that is not stored (empty, whitespace-only or label-only)
AIFailed ==
    \/ last.via \in {"exception", "no_response"}
    \/ last.via = "model" /\ ~AcceptSummary(last.ret).some

\* C3 (as stated): when the AI call of a pass fails and turns are removed, a
\* deterministic fallback writes the summary; it is not left as it was.
C3_FailureFallsBack ==
    AIFailed /\ last.evicted # {} => last.writer \in {"simple", "inline"}

\* the last pass ran into the join timeout of create_continuous_summary
TimedOut == last.via = "simple_timeout"

\* C4 (as stated): after a cycle whose model call timed out, the summary
\* equals the fallback output returned by create_continuous_summary.
C4_SummaryIsFallbackOutput == TimedOut => conversation_summary = last.ret.s

\* C4 (amended): after a cycle whose model call timed out, the call has
\* returned the fallback summary and conversation_summary is that summary with
\* its surrounding whitespace stripped, also after the model call completes;
\* and no completion of a timed-out model call changes conversation_summary.
C4_LateResultDiscarded ==
    /\ [](TimedOut => /\ last.ret.some
                      /\ last.writer = "simple"
                      /\ conversation_summary = Strip(last.ret.s))
    /\ [][abandoned' < abandoned => conversation_summary' = conversation_summary]_vars

\* C4 witness: a turn-removing cycle timed out, stored a fallback that ends
\* with whitespace, and the model call has completed since.
C4_Witness ==
    /\ TimedOut
    /\ last.evicted # {}
    /\ abandoned = 0
    /\ last.ret.s # Strip(last.ret.s)

\* C5 (as stated): format_chat_prompt terminates, after at most one
\* summarization pass per call.
C5_AtMostOnePass == fcp.outcome # "RecursionError" /\ fcp.passes <= 1

\* the prompt the last call of format_chat_prompt returned: nothing has
\* changed the buffer or the summary since
ReturnedPrompt == CurrentPrompt(fcp.user_input)

\* C6: a prompt returned with an llm_worker supplied is estimated at no more
\* than 350 tokens.
C6_ReturnedWithinBudget ==
    fcp.outcome = "returned" /\ fcp.llm => CheckPromptLength(ReturnedPrompt) <= TokenBudget

\* C6 witness: a call with an llm_worker returned after a pass shortened the prompt.
C6_Witness == fcp.outcome = "returned" /\ fcp.llm /\ fcp.passes >= 1

\* the blocks of prompt p are: the system prompt; the summary as a context
\* block iff it is non-empty; one block per turn of turns, in order; the user
\* input; the empty assistant marker
PromptIs(p, turns) ==
    /\ Len(p) = 1 + (IF conversation_summary # <<>> THEN 1 ELSE 0) + Len(turns) + 2
    /\ p[1].kind = "system_prompt"
    /\ conversation_summary # <<>> => p[2] = [kind |-> "context", text |-> conversation_summary]
    /\ \A i \in 1..Len(turns) :
          p[Len(p) - 2 - Len(turns) + i] = [kind |-> turns[i].role, text |-> Rendered(turns[i])]
    /\ p[Len(p) - 1] = [kind |-> "user", text |-> UserInputs[fcp.user_input]]
    /\ p[Len(p)] = [kind |-> "assistant_start", text |-> <<>>]

\* C7 (as stated): the returned prompt holds, between the summary and the
\* user input, the most recent buffer turns (some number n of them), each in
\* its place in the append order.
C7_RecentTurnsInPrompt ==
    fcp.outcome = "returned" =>
        \E n \in 0..Len(conversation_history) :
            PromptIs(ReturnedPrompt, LastN(conversation_history, n))

\* C7 (amended): the returned prompt is the system prompt, the summary as a
\* context block iff non-empty, the user and assistant turns among the last 6
\* buffer turns in append order, the user input and the assistant marker.
C7_PromptOrder ==
    fcp.outcome = "returned" =>
        PromptIs(ReturnedPrompt,
                 SelectSeq(LastN(conversation_history, 6),
                           LAMBDA m : m.role \in {"user", "assistant"}))

\* C7 witness: a prompt was returned while the summary is non-empty and a
\* turn of another role is among the last 6.
C7_Witness ==
    /\ fcp.outcome = "returned"
    /\ conversation_summary # <<>>
    /\ \E i \in 1..Len(conversation_history) :
          /\ i > Len(conversation_history) - 6
          /\ conversation_history[i].role \notin {"user", "assistant"}
    /\ \E i \in 1..Len(conversation_history) :
          /\ i > Len(conversation_history) - 6
          /\ conversation_history[i].role = "user"

\* the content add_to_conversation stored for the turn it appended
StoredContent == conversation_history[Len(conversation_history)].content

\* C8: content within max_tokens_per_message is stored unchanged; longer
\* content is stored as its first max_tokens_per_message characters and "...".
C8_Truncation ==
    last.op = "add" =>
        IF Len(last.content_in) <= cfg.max_tokens_per_message
        THEN StoredContent = last.content_in
        ELSE /\ Len(StoredContent) = cfg.max_tokens_per_message + 3
             /\ \A i \in 1..cfg.max_tokens_per_message : StoredContent[i] = last.content_in[i]
             /\ \A i \in 1..3 : StoredContent[cfg.max_tokens_per_message + i] = "."

\* C8 witness: add_to_conversation returned after appending content over the limit.
C8_Witness == last.op = "add" /\ Len(last.content_in) > cfg.max_tokens_per_message

\* C9 (as stated): a summary that is non-empty before an operation that
\* removes turns is non-empty after it.
C9_SummaryStaysNonEmpty ==
    last.prev_summary # <<>> /\ last.evicted # {} => conversation_summary # <<>>

\* C10 (as stated): the summary is never longer than the largest budget
\* handed to a summarizer, 150 characters.
C10_SummaryWithinBudget == Len(conversation_summary) <= 150

\* C11: the buffer is always the most recently appended turns, in append order
\* (so what a pass removes is its oldest turns and the rest keep their order),
\* and every turn an operation hands to a summarizer is in the buffer (or is
\* the turn being appended) before the operation and not in the buffer after
\* it, so that no later pass can be handed it again.
C11_PrefixEvictionInOrder ==
    /\ [](\A i \in 1..Len(conversation_history) :
            conversation_history[i].id = nturns - Len(conversation_history) + i)
    /\ [][last' # last =>
            /\ last'.fed \subseteq
                  (Ids(conversation_history) \cup {nturns + 1}) \ Ids(conversation_history')
            /\ last'.evicted \cap Ids(conversation_history') = {}]_vars

\* C11 witness: a pass removed turns and handed turns to a summarizer after an
\* earlier pass had removed turns, and turns remain in the buffer.
C11_Witness ==
    /\ last.evicted # {}
    /\ last.fed # {}
    /\ conversation_history # <<>>
    /\ Cardinality(last.evicted) < nturns - Len(conversation_history)

\* the last operation was a call of format_chat_prompt that ran
\* _force_summarization on more than 4 turns
ForcedPass == last.op = "format" /\ last.ran /\ last.max_length = 150

\* C12 (as stated): the forced pass of format_chat_prompt leaves exactly the
\* last 4 turns in the buffer and hands every older turn to a summarizer.
C12_ForcedPassKeepsLast4 ==
    ForcedPass =>
        /\ Len(conversation_history) = 4
        /\ \A i \in 1..4 : conversation_history[i].id = nturns - 4 + i
        /\ last.evicted # {}
        /\ last.evicted \subseteq last.fed

\* the worker is Degraded: is_enabled false or summarizer unset
Degraded == ~sw.is_enabled \/ ~sw.summarizer

\* the operation recorded in o called the model's create_chat_completion
ModelInvoked(o) ==
    o.via \in {"simple_timeout", "exception", "critical", "no_response", "model"}

\* C13: an operation that starts while the worker is Degraded
\* (create_ai_summary, create_continuous_summary, get_conversation_context
\* with its create_topic_summary, or a pass of the conversation worker) does
\* not call create_chat_completion, and create_continuous_summary then
\* returns what _create_simple_summary makes of its arguments.
C13_DegradedShortCircuits ==
    [][Degraded /\ last' # last =>
         /\ ~ModelInvoked(last')
         /\ last'.op = "create_continuous_summary" =>
               last'.ret = Some(CreateSimpleSummary(last'.content_in, last'.prev_summary,
                                                    last'.max_length))]_vars

\* C13 witness: create_continuous_summary has returned the fallback's summary
\* of an exchange from a worker whose summarizer is loaded and whose
\* is_enabled is false.
C13_Witness ==
    /\ last.op = "create_continuous_summary"
    /\ last.via = "simple_disabled"
    /\ last.content_in = T_Exchange
    /\ last.ret.some
    /\ sw.summarizer /\ ~sw.is_enabled

TransientFailure(o) ==
    \/ o.via \in {"simple_timeout", "exception", "no_response"}
    \/ o.via = "model" /\ ~o.ret.some

\* C15: a summarization call or pass whose model call fails transiently
\* leaves the worker's fields as they were, and one that changes them met a
\* critical (access violation or segmentation fault) error and leaves the
\* worker disabled with no summarizer.
C15_OnlyCriticalErrorsDegrade ==
    [][last' # last =>
         /\ TransientFailure(last') => sw' = sw
         /\ sw' # sw => /\ last'.via = "critical"
                        /\ ~sw'.is_enabled /\ ~sw'.summarizer]_vars

\* C15 witness: create_ai_summary has timed out on an enabled worker, which
\* is still enabled while the model call runs on.
C15_Witness ==
    /\ last.op = "create_ai_summary"
    /\ last.via = "simple_timeout"
    /\ abandoned > 0
    /\ sw.is_enabled /\ sw.summarizer

\* C16 (as stated): after an operation that removed turns,
\* conversation_summary does not begin with "summary:" in any letter case.
C16_NoSummaryLabel ==
    last.evicted # {} => ~StartsWith(Lower(conversation_summary), S_summary_colon)

\* the last operation was a call of _create_simple_summary
SimpleCalled == last.op = "_create_simple_summary"

\* C17: _create_simple_summary returns (it does not raise) a non-empty
\* string for every transcript, existing summary and max_length, and the
\* generic sentence when the transcript is not a str or when a max_length
\* that is not an int meets an existing summary.
C17_SimpleSummaryNeverFails ==
    SimpleCalled =>
        /\ last.via = "simple"
        /\ last.ret.some
        /\ last.ret.s # <<>>
        /\ last.arg_types[1] # "str" => last.ret.s = S_Generic
        /\ last.arg_types[3] # "int" /\ last.prev_summary # <<>> => last.ret.s = S_Generic

\* C17 witness: _create_simple_summary was called with None for the
\* transcript and has returned the generic sentence.
C17_Witness ==
    /\ SimpleCalled
    /\ last.arg_types[1] = "NoneType"
    /\ last.ret.s = S_Generic

\* C18 (as stated): the string _create_simple_summary returns for an int
\* max_length is never longer than max_length.
C18_SimpleSummaryWithinMaxLength ==
    SimpleCalled /\ last.arg_types[3] = "int" => Len(last.ret.s) <= last.max_length

\* the turn appended as number n of this session
TurnInput(n) == CHOOSE in \in Inputs(profile, n) : TRUE

\* the user turns among those the last operation handed to a summarizer
FedUsers == {n \in last.fed : TurnInput(n).role = "user"}

\* the first word of the content of turn n, in lower case
FirstWord(n) == Lower(SplitWords(TurnInput(n).content, 1, 1)[1])

\* C19 (as stated): when a deterministic fallback (_create_simple_summary or
\* the inline text extraction) wrote the summary from turns with a user turn
\* among them, the summary holds the beginning (at least the first word, in
\* any letter case) of one of those user messages.
C19_FallbackEmbedsUserFragment ==
    last.writer \in {"simple", "inline"} /\ FedUsers # {} =>
        \E n \in FedUsers : Find(Lower(conversation_summary), FirstWord(n), 1) # 0

-----------------------------------------------------------------------------
(* Long-term memory: properties of SpecMemory *)

\* recall_relevant_memory was the last operation and returned a list
Recalled == mlast.op = "recall" /\ ~mlast.raised

\* the place of key k in the store's iteration order
KeyIndex(k) == CHOOSE i \in 1..Len(memory_cache) : memory_cache[i].key = k

\* the score recall gives the stored memory e for the query of the last recall
ScoreNow(e) == RelevanceScore(e.data, Lower(mlast.query.s))

\* the keys of the list the last recall returned
ReturnedKeys == {mlast.ret[i].key : i \in 1..Len(mlast.ret)}

\* C21: recall_relevant_memory returns at most max_results records, each of
\* the store and with a score above 0, in descending order of score with
\* equal scores in the store's iteration order, and no record that was left
\* out scores higher than a record that was returned.
C21_RecallTopByScore ==
    Recalled =>
        /\ Len(mlast.ret) <= mlast.max_results
        /\ \A i \in 1..Len(mlast.ret) :
              /\ mlast.ret[i].key \in Keys(memory_cache)
              /\ mlast.ret[i].relevance > 0
        /\ \A i, j \in 1..Len(mlast.ret) :
              i < j =>
                 /\ mlast.ret[i].relevance >= mlast.ret[j].relevance
                 /\ mlast.ret[i].relevance = mlast.ret[j].relevance
                       => KeyIndex(mlast.ret[i].key) < KeyIndex(mlast.ret[j].key)
        /\ \A n \in 1..Len(memory_cache) :
              memory_cache[n].key \notin ReturnedKeys =>
                 \A i \in 1..Len(mlast.ret) :
                    /\ ScoreNow(memory_cache[n]) <= mlast.ret[i].relevance
                    /\ ScoreNow(memory_cache[n]) = mlast.ret[i].relevance
                          => KeyIndex(mlast.ret[i].key) < n

\* C21 witness: a recall has returned two memories in the reverse of their
\* store order, the higher score first.
C21_Witness ==
    /\ Recalled
    /\ Len(mlast.ret) = 2
    /\ mlast.ret[1].relevance > mlast.ret[2].relevance
    /\ KeyIndex(mlast.ret[1].key) > KeyIndex(mlast.ret[2].key)

\* the reference sum of the score, in tenths: 2 for the query in the user
\* input, 1 in the response, 3 in the summary, 0.3 for each query word among
\* the keywords and 0.5 for each query word among the words of the user input
QueryWords(q) == SetOf(AllWords(q))
ReferenceScore(d, q) ==
    (IF Contains(Lower(d.user_input), q) THEN 20 ELSE 0)
    + (IF Contains(Lower(d.ai_response), q) THEN 10 ELSE 0)
    + (IF d.summary.some /\ Contains(Lower(d.summary.s), q) THEN 30 ELSE 0)
    + 3 * Cardinality({w \in QueryWords(q) : w \in d.keywords.items})
    + 5 * Cardinality({w \in QueryWords(q) : w \in SetOf(AllWords(Lower(d.user_input)))})

\* the query of the last recall occurs in a text of the stored memory e
TextMatch(e) ==
    \/ Contains(Lower(e.data.user_input), Lower(mlast.query.s))
    \/ Contains(Lower(e.data.ai_response), Lower(mlast.query.s))
    \/ e.data.summary.some /\ Contains(Lower(e.data.summary.s), Lower(mlast.query.s))

\* the stored memory e shares a word with the query of the last recall
SharesWord(e) ==
    QueryWords(Lower(mlast.query.s))
       \cap (e.data.keywords.items \cup SetOf(AllWords(Lower(e.data.user_input)))) # {}

\* C22: every record a recall returns carries the reference sum as its
\* score and the stored data of its key; and when the query matches the text
\* of exactly one stored record and shares no word with the others, an
\* enabled worker asked for at least one result returns exactly that record.
C22_ScoreIsReferenceSum ==
    Recalled =>
        /\ \A i \in 1..Len(mlast.ret) :
              /\ mlast.ret[i].key \in Keys(memory_cache)
              /\ mlast.ret[i].data = DictGet(memory_cache, mlast.ret[i].key)
              /\ mlast.ret[i].relevance
                    = ReferenceScore(mlast.ret[i].data, Lower(mlast.query.s))
        /\ \A n \in 1..Len(memory_cache) :
              /\ mw.is_enabled
              /\ mlast.max_results >= 1
              /\ TextMatch(memory_cache[n])
              /\ \A k \in 1..Len(memory_cache) :
                    k # n => ~TextMatch(memory_cache[k]) /\ ~SharesWord(memory_cache[k])
              => /\ Len(mlast.ret) = 1
                 /\ mlast.ret[1].key = memory_cache[n].key

\* C22 witness: a recall of "Alice" over a store of several memories has
\* returned one record, with the score 2 + 1 + 0.3 + 0.5.
C22_Witness ==
    /\ Recalled
    /\ mlast.query = PyStr(Q_Alice)
    /\ mlast.max_results = 5
    /\ Len(memory_cache) >= 2
    /\ Len(mlast.ret) = 1
    /\ mlast.ret[1].relevance = 38

\* the steps of the memory operations
StoreStep ==
    \E x \in Exchanges, io \in SaveOutcomes :
       \E outcome \in OutcomesOfExchange(x) :
          StoreConversationMemory(x.user_input, x.ai_response, outcome, io)
RecallStep ==
    \E query \in Queries, max_results \in MaxResults :
       RecallRelevantMemoryCall(query, max_results)
CleanupStep == \E io \in {"ok"} : CleanupMemory(io)
ClearStep == \E io \in {"ok", "unlink_fails"} : ClearMemory(io)

\* C23 as stated: a worker that has not been initialized successfully, or
\* whose LLM worker is unavailable, or whose store is empty, returns an empty
\* list from recall_relevant_memory without raising.
C23_DisabledUntilInitialized ==
    mlast.op = "recall"
    /\ (~mw.is_initialized \/ mw.llm_worker # "available" \/ memory_cache = <<>>)
    => ~mlast.raised /\ mlast.ret = <<>>

\* C23, amended: while is_enabled is false or the store is empty, recall
\* returns an empty list without raising; a store by a worker whose
\* is_enabled is false changes no record, no file and no counter; recall
\* never changes the store or the file; and is_enabled is false after
\* cleanup and whenever the LLM worker is missing or unavailable.  (The
\* steps are told apart by what they change: a step that changes the store
\* of a disabled worker is no store, a step that changes the store or the
\* file is no recall, a step that ends enabled is no cleanup.)
C23_DisabledChangesNothing ==
    /\ [](mlast.op = "recall" /\ (~mw.is_enabled \/ memory_cache = <<>>)
            => ~mlast.raised /\ mlast.ret = <<>>)
    /\ [](mw.llm_worker # "available" => ~mw.is_enabled)
    /\ [][/\ ~mw.is_enabled /\ <<memory_cache, memory_file, mw>>' # <<memory_cache, memory_file, mw>>
                => ~StoreStep
          /\ <<memory_cache, memory_file>>' # <<memory_cache, memory_file>> => ~RecallStep
          /\ mw'.is_enabled => ~CleanupStep]_vars

\* C23 witness: after cleanup, with memories in the store, a recall whose
\* query is not even a str has returned an empty list.
C23_Witness ==
    /\ mlast.op = "recall"
    /\ mlast.query = PyNone
    /\ ~mlast.raised
    /\ mlast.ret = <<>>
    /\ mw.llm_worker = "available"
    /\ ~mw.is_enabled
    /\ memory_cache # <<>>

\* C24: a store_conversation_memory call of an enabled worker adds a record
\* under a new key: the store has one record more, total_memories_stored is
\* one higher, and every record stored before is still there unchanged, at
\* whatever clock readings consecutive stores are made.
C24_StoreAddsOneRecord ==
    [][mw.is_enabled /\ StoreStep =>
          /\ Len(memory_cache') = Len(memory_cache) + 1
          /\ mw'.total_memories_stored = mw.total_memories_stored + 1
          /\ SubSeq(memory_cache', 1, Len(memory_cache)) = memory_cache]_vars

\* the records of a store as a fresh worker compares them: key, user_input,
\* ai_response, summary and the keywords, whatever collection holds them
Records(cache) ==
    [i \in 1..Len(cache) |->
        [key |-> cache[i].key, user_input |-> cache[i].data.user_input,
         ai_response |-> cache[i].data.ai_response, summary |-> cache[i].data.summary,
         keywords |-> cache[i].data.keywords.items]]

\* a store step of an enabled worker during which writing the file does not fail
StoreStepWriting ==
    /\ mw.is_enabled
    /\ \E x \in Exchanges :
          \E outcome \in OutcomesOfExchange(x) :
             StoreConversationMemory(x.user_input, x.ai_response, outcome, "ok")

\* C25: when store_conversation_memory returns on an enabled worker, a fresh
\* worker that loads the backing file sees exactly the records of the storing
\* worker's memory_cache.
C25_FileHoldsWholeStore ==
    [][StoreStepWriting =>
          Records(LoadMemory(memory_file', "ok")) = Records(memory_cache')]_vars

\* C26: a failure inside _save_memory leaves the backing file with either
\* all of its previous contents or all of the new contents: a step that
\* changes the file without deleting it leaves the whole store in it.
C26_SaveIsAllOrNothing ==
    [][memory_file' # memory_file /\ memory_file'.kind # "absent" =>
          memory_file' = JsonFile(memory_cache')]_vars

\* a store step of an enabled worker
StoreStepEnabled == mw.is_enabled /\ mlast'.op = "store" /\ StoreStep

\* an initialize step of a worker with an available LLM worker that cannot
\* read the backing file, or finds it cut short
InitializeStepUnreadable ==
    /\ mw.llm_worker = "available"
    /\ mlast'.op = "initialize"
    /\ \/ InitializeMemory("read_fails")
       \/ memory_file.kind = "partial" /\ InitializeMemory("ok")

\* C27: a store whose write of the backing file fails still returns and
\* leaves its record in the store under the key of the clock reading, where
\* a later recall finds it: whatever the state of the file, a recall that has
\* room left returns every stored memory with a positive score.  An
\* initialize that cannot read the file succeeds with an empty store.
C27_IoFailuresKeepMemoryWorking ==
    /\ [](Recalled /\ mw.is_enabled /\ Len(mlast.ret) < mlast.max_results
            => \A n \in 1..Len(memory_cache) :
                  ScoreNow(memory_cache[n]) > 0 => memory_cache[n].key \in ReturnedKeys)
    /\ [][/\ StoreStepEnabled =>
                /\ ~mlast'.raised
                /\ MemoryKey(now) \in Keys(memory_cache')
                /\ DictGet(memory_cache', MemoryKey(now)).timestamp = now
                /\ mw'.total_memories_stored = mw.total_memories_stored + 1
                /\ mw'.is_enabled
          /\ InitializeStepUnreadable =>
                /\ mlast'.ok
                /\ mw'.is_initialized /\ mw'.is_enabled
                /\ memory_cache' = <<>>]_vars

\* C27 witness: the backing file is cut short, and a recall has returned the
\* memory stored at the present clock reading.
C27_Witness ==
    /\ Recalled
    /\ memory_file.kind = "partial"
    /\ Len(mlast.ret) = 1
    /\ mlast.ret[1].key = MemoryKey(now)
    /\ mlast.ret[1].data.keywords.type = "set"

\* C28: after _cleanup_expired_memories every record with a timestamp before
\* now - memory_ttl_hours is gone, and the records within the TTL are all
\* there, unchanged and in their order.
C28_CleanupRemovesExactlyExpired ==
    [][mlast'.op = "_cleanup_expired_memories" /\ CleanupExpiredMemories =>
          /\ \A i \in 1..Len(memory_cache) :
                IF memory_cache[i].data.timestamp
                      < now - MemoryConfig.memory_ttl_hours * 3600
                THEN memory_cache[i].key \notin Keys(memory_cache')
                ELSE /\ memory_cache[i].key \in Keys(memory_cache')
                     /\ DictGet(memory_cache', memory_cache[i].key) = memory_cache[i].data
          /\ Keys(memory_cache') \subseteq Keys(memory_cache)
          /\ Len(memory_cache') = Cardinality(Keys(memory_cache'))]_vars

\* C28 witness: _cleanup_expired_memories has removed an expired memory and
\* kept one whose timestamp is exactly the cutoff.
C28_Witness ==
    /\ mlast.op = "_cleanup_expired_memories"
    /\ mlast.ret # <<>>
    /\ \E i \in 1..Len(memory_cache) : memory_cache[i].data.timestamp = CutoffTime(now)

\* C29: recall_relevant_memory returns no record whose timestamp is older
\* than memory_ttl_hours at the time of the call, and a step that writes the
\* backing file leaves no such record in it.
C29_ExpiredNeverRecalled ==
    [][/\ mlast'.op = "recall" /\ RecallStep =>
             \A i \in 1..Len(mlast'.ret) : ~Expired(mlast'.ret[i], now)
       /\ memory_file' # memory_file =>
             \A i \in 1..Len(memory_file'.doc) : ~Expired(memory_file'.doc[i], now)]_vars

ImportStep == mlast'.op = "import_memory" /\ \E f \in ImportFiles : ImportMemory(f, "ok")

\* C31: import_memory merges: afterwards the store holds every imported
\* record and every record it held under another key, and a fresh worker
\* that loads the backing file sees the merged store; an import of a missing
\* file returns False and leaves the store as it was.
C31_ImportMergesAndPersists ==
    [][ImportStep =>
          IF mlast'.ok
          THEN /\ \A i \in 1..Len(ImportedOld) :
                     /\ ImportedOld[i].key \in Keys(memory_cache')
                     /\ DictGet(memory_cache', ImportedOld[i].key) = ImportedOld[i].data
               /\ \A i \in 1..Len(memory_cache) :
                     memory_cache[i].key \notin Keys(ImportedOld)
                        => /\ memory_cache[i].key \in Keys(memory_cache')
                           /\ DictGet(memory_cache', memory_cache[i].key)
                                 = memory_cache[i].data
               /\ Keys(memory_cache') = Keys(memory_cache) \cup Keys(ImportedOld)
               /\ Records(LoadMemory(memory_file', "ok")) = Records(memory_cache')
          ELSE memory_cache' = memory_cache]_vars

\* an export_memory step, and an import of the exported file
ExportStep == mlast'.op = "export_memory" /\ ExportMemory
ImportExportedStep == mlast'.op = "import_exported" /\ ImportExportedMemory("ok")

\* the store holds one record or more, all made by store_conversation_memory
BuiltByStores(cache) ==
    /\ cache # <<>>
    /\ \A i \in 1..Len(cache) : cache[i].data.keywords.type = "set"

\* C32: export_memory of a store built by store_conversation_memory calls
\* succeeds, and import_memory of the exported file into the store emptied by
\* clear_memory restores exactly the records of the store at export time.
C32_ExportImportRoundTrip ==
    [][/\ ExportStep /\ BuiltByStores(memory_cache) => mlast'.ok
       /\ ImportExportedStep /\ memory_cache = <<>> /\ BuiltByStores(export_file.of)
             => Records(memory_cache') = Records(export_file.of)]_vars

\* C38: whatever store_conversation_memory and import_memory calls were made,
\* the store holds at most config.memory.max_memories records.
C38_StoreWithinMaxMemories == Len(memory_cache) <= MemoryConfig.max_memories

\* C35: when SummarizationWorker.initialize() has returned True the worker is
\* not Degraded: is_enabled is true and the summarizer is set, which is what
\* makes create_continuous_summary call the model and get_status report the
\* AI model as active.
C35_InitializedIsEnabled ==
    [][Initialize(TRUE) => sw'.is_initialized /\ sw'.summarizer /\ sw'.is_enabled]_vars

\* C36: at most one call of create_chat_completion is in flight: an operation
\* that calls the model starts only when no thread of an earlier, timed-out
\* call is still running.
C36_OneModelCallInFlight ==
    [][last' # last /\ ModelInvoked(last') => abandoned = 0]_vars

-----------------------------------------------------------------------------
(* The conversation worker over LLM and memory: properties of SpecChat *)

\* the last entry of the conversation worker's history
LastTurn(w) == w.conversation_history[Len(w.conversation_history)]

\* the LLM yields None or the empty string (for the stream: no token)
EmptyResults == {AINone, AIText(<<>>)}

\* a call of process_user_input, and a first next() on the generator of
\* process_user_input_stream, during which the LLM yields nothing
ProcessStepEmpty ==
    \E user_input \in ChatInputs, llm \in EmptyResults, outcome \in SummaryOutcomes,
       elapsed \in Elapsed :
       ProcessUserInput(user_input, llm, outcome, "ok", elapsed)
StreamStepEmpty ==
    \E user_input \in ChatInputs, llm \in EmptyResults, outcome \in SummaryOutcomes,
       elapsed \in Elapsed :
       StreamStart(user_input, llm, outcome, "ok", elapsed)

\* C33: in process_user_input and in process_user_input_stream, when the LLM
\* yields a null or empty result, the assistant turn put on
\* conversation_history and the response stored to long-term memory are the
\* non-empty apology.
C33_EmptyResultBecomesApology ==
    [][cw.llm_worker = "available" /\ (ProcessStepEmpty \/ StreamStepEmpty) =>
          /\ LastTurn(cw').role = "assistant"
          /\ LastTurn(cw').content = S_Apology
          /\ MemoryAvailable(cw, mw) =>
                DictGet(memory_cache', MemoryKey(now')).ai_response = S_Apology]_vars

\* a call of process_user_input that ran to its end
ProcessStep ==
    \E user_input \in ChatInputs, outcome \in SummaryOutcomes, elapsed \in Elapsed :
       \E llm \in ChatOutcomes(user_input) :
          ProcessUserInput(user_input, llm, outcome, "ok", elapsed)
ProcessStepCompleted ==
    /\ clast'.op = "process_user_input"
    /\ Len(cw'.conversation_history) = Len(cw.conversation_history) + 2
    /\ ProcessStep

\* the value of `key` in a context
ContextGet(context, key) == context[CHOOSE i \in 1..Len(context) : context[i].key = key].data

\* C34: within a process_user_input call the recall comes first, then the
\* generation, the assistant turn and the store.  What the recall returned
\* are records the store held before the call, and all of those that match
\* the input (up to 5), so the record of turn k is there for the recall of
\* turn k + 1 and the record of a turn is not in its own recall; the
\* assistant turn carries the response; and the one record added to the
\* store carries that response and what the recall returned.
C34_RecallGenerateAppendStore ==
    [][ProcessStepCompleted =>
          /\ \A i \in 1..Len(clast'.relevant_memories) :
                /\ clast'.relevant_memories[i].key \in Keys(memory_cache)
                /\ DictGet(memory_cache, clast'.relevant_memories[i].key)
                      = clast'.relevant_memories[i].data
          /\ MemoryAvailable(cw, mw) /\ Len(clast'.relevant_memories) < 5 =>
                \A n \in 1..Len(memory_cache) :
                   RelevanceScore(memory_cache[n].data, Lower(clast'.user_input)) > 0
                      => \E i \in 1..Len(clast'.relevant_memories) :
                            clast'.relevant_memories[i].key = memory_cache[n].key
          /\ ~MemoryAvailable(cw, mw) =>
                clast'.relevant_memories = <<>> /\ memory_cache' = memory_cache
          /\ LastTurn(cw').role = "assistant"
          /\ LastTurn(cw').content = clast'.ret
          /\ cw'.conversation_history[Len(cw.conversation_history) + 1].role = "user"
          /\ MemoryAvailable(cw, mw) =>
                /\ Len(memory_cache') = Len(memory_cache) + 1
                /\ SubSeq(memory_cache', 1, Len(memory_cache)) = memory_cache
                /\ memory_cache'[Len(memory_cache')].data.user_input = clast'.user_input
                /\ memory_cache'[Len(memory_cache')].data.ai_response = clast'.ret
                /\ ContextGet(memory_cache'[Len(memory_cache')].data.context,
                              "relevant_memories") = clast'.relevant_memories]_vars

\* C34 witness: the second process_user_input call has recalled the record
\* that the first one stored, and has stored its own record with it.
C34_Witness ==
    /\ clast.op = "process_user_input"
    /\ Len(memory_cache) = 2
    /\ Len(clast.relevant_memories) = 1
    /\ clast.relevant_memories[1].key = memory_cache[1].key
    /\ ContextGet(memory_cache[2].data.context, "relevant_memories") = clast.relevant_memories
    /\ cw.total_conversations = 2

\* history `after` is history `before` and then one user turn followed by one
\* assistant turn
ExtendedByExchange(before, after) ==
    /\ Len(after) = Len(before) + 2
    /\ SubSeq(after, 1, Len(before)) = before
    /\ after[Len(before) + 1].role = "user"
    /\ after[Len(before) + 2].role = "assistant"

\* C37: a process_user_input call, by whichever path it returns (LLM worker
\* unavailable, response produced, exception caught), leaves
\* conversation_history as it was or extended by exactly one user turn
\* followed by one assistant turn.
C37_TurnIsAllOrNothing ==
    [][clast'.op = "process_user_input" /\ ProcessStep =>
          \/ cw'.conversation_history = cw.conversation_history
          \/ ExtendedByExchange(cw.conversation_history, cw'.conversation_history)]_vars

\* a call of health_check
HealthStep ==
    /\ clast'.op = "health_check"
    /\ \E llm \in ChatOutcomes(S_test), outcome \in SummaryOutcomes, elapsed \in Elapsed :
          HealthCheck(llm, outcome, "ok", elapsed)

\* C39: health_check leaves conversation_history, total_conversations, the
\* response-time metrics and the long-term memory store unchanged.
C39_HealthCheckReadsOnly ==
    [][HealthStep =>
          /\ cw'.conversation_history = cw.conversation_history
          /\ cw'.total_conversations = cw.total_conversations
          /\ cw'.total_response_time = cw.total_response_time
          /\ memory_cache' = memory_cache]_vars

====
